---- MODULE Spec2Model ----
(***************************************************************************)
(* Enigma Hunter: the browser game (public/game.js, public/game-engine.js) *)
(* as a state machine.  The player state, the rendered option buttons, the *)
(* conversation panel, the guest_saves collection and the continuations of *)
(* the async handlers that are waiting for the network are the state; each *)
(* UI handler is one action, an async handler one action per stretch       *)
(* between two network awaits.                                             *)
(***************************************************************************)
EXTENDS Integers, Sequences, FiniteSets, TLC

VARIABLES
    gameData,            \* GameEngine.gameData
    playerState,         \* GameEngine.playerState
    dynamicDetailsCache, \* GameEngine.dynamicDetailsCache
    guest_saves,         \* Firestore collection guest_saves: playerId -> document
    screen,              \* the one screen that is not hidden (showScreen)
    options,             \* the buttons rendered in #options-container
    conversationPanel,   \* TRUE: #conversation-panel shown, #options-container hidden
    narrative,           \* what #narrative-text shows, with its take button
    currentCharacter,    \* UIController.currentCharacter
    conversationLog,     \* the messages in #conversation-history
    savedGamesList,      \* the items rendered in #saved-games-list
    triggerResult,       \* the value the last finished checkForTrigger returned
    pending,             \* async handlers waiting for a network reply
    notifications,       \* the toasts and alerts raised by the last step
    handlerFailed,       \* TRUE once a handler has thrown
    nactions,            \* number of user events so far
    accusationModal,     \* #accusation-modal: "hidden", or shown with its submit
                         \* button "disabled" or "enabled"
    resultModal,         \* what #result-modal shows
    localStorage,        \* window.localStorage: key -> value
    aiProvider,          \* the AIProviderManager: currentProvider and config
    requests,            \* what fetch was called with in the last step of the AI side
    generated_stories,   \* Firestore collection generated_stories: storyId -> document
    generation,          \* AIUIController.generateStory: where the handler stands
    aiModals,            \* #ai-settings-modal and #story-generator-modal
    backend,             \* a call of a cloud function: its inputs and where it stands
    game_data,           \* Firestore collection game_data: document id -> document
    uploader             \* the upload script: where the run stands

vars == <<gameData, playerState, dynamicDetailsCache, guest_saves, screen, options,
          conversationPanel, narrative, currentCharacter, conversationLog,
          savedGamesList, triggerResult, pending, notifications,
          handlerFailed, nactions, accusationModal, resultModal,
          localStorage, aiProvider, requests, generated_stories, generation, aiModals,
          backend, game_data, uploader>>

pageVars ==
    <<gameData, playerState, dynamicDetailsCache, guest_saves, screen, options,
      conversationPanel, narrative, currentCharacter, conversationLog,
      savedGamesList, triggerResult, pending, notifications, handlerFailed, nactions>>

accusationVars == <<accusationModal, resultModal>>

aiVars ==
    <<localStorage, aiProvider, requests, generated_stories, generation, aiModals, backend>>

uploadVars == <<game_data, uploader>>

-----------------------------------------------------------------------------
(* Bounds *)

MaxLen == 2        \* longest text typed into the conversation input
MaxActions == 6    \* user events in one session
MaxPending == 1    \* async handlers in flight at once
MaxMessages == 1   \* questions sent in one conversation

-----------------------------------------------------------------------------
(* Values *)

NullId == 0                 \* null in a numeric field (ids start at 1)
NullScore == -1             \* playerState.finalScore: null
NullText == "null"          \* null in a string field
MaxLocationLevel == 3       \* increaseLocationDiscovery: Math.min(level + 1, 3)
MaxSkill == 100             \* Math.min(skill + n, 100)
ObjectSkillGain == 10       \* increaseSkillByObject
MessageSkillGain == 5       \* sendMessage

Put(f, k, v) == [x \in (DOMAIN f) \cup {k} |-> IF x = k THEN v ELSE f[x]]

Min(a, b) == IF a <= b THEN a ELSE b

Includes(seq, x) == \E i \in DOMAIN seq : seq[i] = x

(* Texts are sequences of characters; a canned response is a text of one   *)
(* symbol.                                                                 *)
Alphabet == {"a", "B", " "}

\* every text of at most MaxLen characters
Texts == UNION {[1..n -> Alphabet] : n \in 0..MaxLen}

\* what the player types into #conversation-input during a session: nothing,
\* blanks, a padded text, texts with one keyword, with none and with two
Questions ==
    {<<>>, <<" ">>, <<" ", "B", "B", " ">>, <<"a">>, <<"a", "a">>, <<"a", "B">>,
     <<"B", "a">>, <<"a", "B", "a">>}

LowerChar(c) ==
    CASE c = "A" -> "a" [] c = "B" -> "b"
      [] c = "S" -> "s" [] c = "I" -> "i" [] c = "M" -> "m"
      [] OTHER -> c

toLowerCase(s) == [i \in DOMAIN s |-> LowerChar(s[i])]

\* String.prototype.includes
includes(s, k) ==
    \E i \in 1..(Len(s) - Len(k) + 1) : SubSeq(s, i, i + Len(k) - 1) = k

RECURSIVE trimStart(_)
trimStart(s) == IF s # <<>> /\ Head(s) = " " THEN trimStart(Tail(s)) ELSE s

RECURSIVE trimEnd(_)
trimEnd(s) ==
    IF s # <<>> /\ s[Len(s)] = " " THEN trimEnd(SubSeq(s, 1, Len(s) - 1)) ELSE s

trim(s) == trimEnd(trimStart(s))

-----------------------------------------------------------------------------
(* The story: a condensed story in the schema of the JSON files under      *)
(* historias/ (ambientes, personagens, data/objetos.json, data/pistas.json)*)
(* as the upload script stores it in game_data.  Names and descriptions    *)
(* are left out; a response is a text of one symbol, a missing response   *)
(* or keyword the empty text.  A requirement's required_object_id and      *)
(* required_detail_id are the array the code normalises them to; null is   *)
(* the empty array (no requirement of the story has an empty array).       *)

Detail(id, lvl) == [detail_id |-> id, discovery_level_required |-> lvl]

Requirement(type, objs, dets, area) ==
    [requirement_type |-> type, required_object_id |-> objs, required_detail_id |-> dets,
     required_area_id |-> area]

Trigger(id, kw, success, fail, reqs) ==
    [trigger_id |-> id, trigger_keyword |-> kw,
     success_response |-> success, fail_response |-> fail, requirements |-> reqs]

Condition(loc, area, det, ch) ==
    [location_id |-> loc, area_id |-> area, detail_id |-> det, character_id |-> ch]

StoryAmbientes ==
    1 :> [location_id |-> 1, is_starting_location |-> TRUE,
          areas |-> <<
            [area_id |-> 1, initially_visible |-> TRUE, connected_areas |-> <<2, 3>>,
             details |-> <<Detail(1, 1), Detail(2, 2), Detail(3, 0)>>],
            [area_id |-> 2, initially_visible |-> TRUE, connected_areas |-> <<1>>,
             details |-> <<Detail(4, 1), Detail(6, 0)>>],
            [area_id |-> 3, initially_visible |-> FALSE, connected_areas |-> <<1>>,
             details |-> <<Detail(7, 0)>>] >>]
    @@
    2 :> [location_id |-> 2, is_starting_location |-> FALSE,
          areas |-> <<
            [area_id |-> 6, initially_visible |-> TRUE, connected_areas |-> <<>>,
             details |-> <<Detail(16, 0)>>] >>]

StoryPersonagens ==
    3 :> [character_id |-> 3, area_id |-> 2,
          levels |-> <<
            [level_number |-> 0, is_defensive |-> FALSE, knowledge_scope |-> "K3.0",
             triggers |-> <<Trigger(7, <<"a", "b">>, <<"S7">>, <<"F7">>,
                              <<Requirement("observation", <<>>, <<1>>, NullId)>>),
                            Trigger(9, <<"b", "b">>, <<"S9">>, <<"F9">>,
                              <<Requirement("observation", <<>>, <<3>>, NullId)>>),
                            Trigger(70, <<>>, <<>>, <<>>, <<>>)>>],
            [level_number |-> 1, is_defensive |-> FALSE, knowledge_scope |-> "K3.1",
             triggers |-> <<Trigger(8, <<"b", "a">>, <<"S8">>, <<"F8">>,
                              <<Requirement("object", <<10, 15>>, <<>>, NullId)>>)>>] >>]
    @@
    5 :> [character_id |-> 5, area_id |-> 1,
          levels |-> <<
            [level_number |-> 0, is_defensive |-> TRUE, knowledge_scope |-> "K5.0",
             triggers |-> <<Trigger(13, <<"A", "b">>, <<"S13">>, <<"F13">>,
                              <<Requirement("observation", <<>>, <<6>>, NullId)>>)>>],
            [level_number |-> 1, is_defensive |-> TRUE, knowledge_scope |-> "K5.1",
             triggers |-> <<Trigger(14, <<"a", "a">>, <<"S14">>, <<"F14">>,
                              <<Requirement("knowledge", <<20>>, <<>>, NullId)>>),
                            Trigger(10, <<"b", "b">>, <<"S10">>, <<"F10">>,
                              <<Requirement("reasoning", <<10, 18>>, <<>>, NullId)>>),
                            Trigger(11, <<"b", "a">>, <<"S11">>, <<"F11">>,
                              <<Requirement("location", <<>>, <<4>>, 2)>>)>>],
            [level_number |-> 2, is_defensive |-> TRUE, knowledge_scope |-> "K5.2",
             triggers |-> <<Trigger(12, <<"a">>, <<"S12">>, <<"F12">>,
                              <<Requirement("evidence", <<10>>, <<>>, NullId),
                                Requirement("observation", <<>>, <<6>>, NullId)>>)>>] >>]

StoryObjetos ==
    << [object_id |-> 10, is_collectible |-> TRUE, initial_location_id |-> 1,
        initial_area_id |-> 1, levels |-> <<0, 1, 2>>],
       [object_id |-> 20, is_collectible |-> FALSE, initial_location_id |-> 1,
        initial_area_id |-> 2, levels |-> <<0, 1, 2>>] >>

StoryPistas ==
    << [clue_id |-> 2, is_key_evidence |-> TRUE, conditions_is_array |-> FALSE,
        discovery_conditions |-> <<Condition(1, 1, 3, NullId)>>],
       [clue_id |-> 8, is_key_evidence |-> FALSE, conditions_is_array |-> FALSE,
        discovery_conditions |-> <<Condition(1, 2, 4, 5)>>],
       [clue_id |-> 14, is_key_evidence |-> FALSE, conditions_is_array |-> TRUE,
        discovery_conditions |-> <<Condition(NullId, NullId, NullId, 5),
                                   Condition(1, 1, 1, NullId)>>] >>

\* historia_base.json: the culprit is character 5
StoryHistoria ==
    [solution_criteria |-> [culprit_id |-> 5,
                            motive_keywords |-> <<<<"a", "B">>, <<"B", "B">>>>,
                            method_keywords |-> <<<<"B", "a">>>>]]

\* gameData.historia_base before loadGameData: null
NullHistoria ==
    [solution_criteria |-> [culprit_id |-> NullId, motive_keywords |-> <<>>,
                            method_keywords |-> <<>>]]

Story ==
    [historia_base |-> StoryHistoria,
     ambientes |-> StoryAmbientes, personagens |-> StoryPersonagens,
     objetos |-> StoryObjetos, pistas |-> StoryPistas]

\* GameEngine constructor: gameData
EmptyGameData ==
    [historia_base |-> NullHistoria,
     ambientes |-> <<>>, personagens |-> <<>>, objetos |-> <<>>, pistas |-> <<>>]

\* GameEngine constructor: playerState
InitialPlayerState ==
    [playerId |-> NullText, currentLocation |-> NullId, currentArea |-> NullId,
     inventory |-> <<>>, discoveredClues |-> <<>>, characterLevels |-> <<>>,
     locationLevels |-> <<>>, objectLevels |-> <<>>, lastSeenDetails |-> <<>>,
     skills |-> [analise_evidencias |-> 0, conhecimento_historico |-> 0,
                 interpretacao_comportamento |-> 0, descoberta_ambiental |-> 0,
                 conexao_informacoes |-> 0],
     examinedObjects |-> <<>>, caseSolved |-> FALSE, finalScore |-> NullScore,
     solvedAt |-> NullText]

-----------------------------------------------------------------------------
(* GameEngine: lookups *)

HasKey(f, k) == k \in DOMAIN f

RECURSIVE SortedKeys(_)
\* the keys of an object with integer keys, in the order Object.entries gives
SortedKeys(S) ==
    IF S = {} THEN <<>>
    ELSE LET m == CHOOSE x \in S : \A y \in S : x <= y
         IN <<m>> \o SortedKeys(S \ {m})

\* the index of the first element of seq that satisfies Test, 0 if none
FindIndex(seq, Test(_)) ==
    IF \E i \in DOMAIN seq : Test(seq[i])
    THEN CHOOSE i \in DOMAIN seq : Test(seq[i]) /\ \A j \in 1..(i - 1) : ~Test(seq[j])
    ELSE 0

\* loadGameData: the first location with is_starting_location, and its first area
StartingLocation(gd) ==
    LET keys == SortedKeys(DOMAIN gd.ambientes)
        i == FindIndex(keys, LAMBDA k : gd.ambientes[k].is_starting_location)
    IN IF i = 0 THEN NullId ELSE keys[i]

StartingArea(gd) ==
    LET loc == StartingLocation(gd)
    IN IF loc # NullId /\ Len(gd.ambientes[loc].areas) > 0
       THEN gd.ambientes[loc].areas[1].area_id
       ELSE NullId

\* getCurrentLocation is defined iff the location id is a key of ambientes
HasCurrentLocation(gd, ps) == HasKey(gd.ambientes, ps.currentLocation)

getCurrentLocation(gd, ps) == gd.ambientes[ps.currentLocation]

AreaIndex(location, areaId) == FindIndex(location.areas, LAMBDA a : a.area_id = areaId)

\* getCurrentArea is defined (not null, not undefined)
HasCurrentArea(gd, ps) ==
    /\ HasCurrentLocation(gd, ps)
    /\ AreaIndex(getCurrentLocation(gd, ps), ps.currentArea) # 0

getCurrentArea(gd, ps) ==
    LET location == getCurrentLocation(gd, ps)
    IN location.areas[AreaIndex(location, ps.currentArea)]

getLocationDiscoveryLevel(ps, areaId) ==
    IF HasKey(ps.locationLevels, areaId) THEN ps.locationLevels[areaId] ELSE 0

increaseLocationDiscovery(ps, areaId) ==
    [ps EXCEPT !.locationLevels =
        Put(@, areaId, Min(getLocationDiscoveryLevel(ps, areaId) + 1, MaxLocationLevel))]

getObjectDiscoveryLevel(ps, objectId) ==
    IF HasKey(ps.objectLevels, objectId) THEN ps.objectLevels[objectId] ELSE 0

getCharacterLevel(ps, characterId) ==
    IF HasKey(ps.characterLevels, characterId) THEN ps.characterLevels[characterId] ELSE 0

getObjectsInArea(gd, ps, locationId, areaId) ==
    SelectSeq(gd.objetos,
        LAMBDA obj : /\ obj.initial_location_id = locationId
                     /\ obj.initial_area_id = areaId
                     /\ ~(obj.is_collectible /\ Includes(ps.inventory, obj.object_id)))

\* the characters whose area_id is areaId; the location is not compared
getCharactersInArea(gd, locationId, areaId) ==
    LET keys == SortedKeys(DOMAIN gd.personagens)
        here == SelectSeq(keys, LAMBDA k : gd.personagens[k].area_id = areaId)
    IN [i \in DOMAIN here |-> [gd.personagens[here[i]] EXCEPT !.character_id = here[i]]]

-----------------------------------------------------------------------------
(* GameEngine: clues, skills, requirements *)

ConditionMatches(c, locationId, areaId, detailId) ==
    c.location_id = locationId /\ c.area_id = areaId /\ c.detail_id = detailId

\* the index in pistas of the clue discoverClueByDetail returns, 0 for null
ClueByDetailIndex(gd, ps, locationId, areaId, detailId) ==
    FindIndex(gd.pistas,
        LAMBDA clue :
            /\ \E i \in DOMAIN clue.discovery_conditions :
                   ConditionMatches(clue.discovery_conditions[i], locationId, areaId, detailId)
            /\ ~Includes(ps.discoveredClues, clue.clue_id))

discoverClueByDetail(gd, ps, locationId, areaId, detailId) ==
    LET i == ClueByDetailIndex(gd, ps, locationId, areaId, detailId)
    IN IF i = 0
       THEN [ps |-> ps, clue |-> NullId]
       ELSE [ps |-> [ps EXCEPT !.discoveredClues = Append(@, gd.pistas[i].clue_id)],
             clue |-> gd.pistas[i].clue_id]

RECURSIVE CluesByCharacterFrom(_, _, _, _, _)
CluesByCharacterFrom(gd, ps, characterId, i, found) ==
    IF i > Len(gd.pistas) THEN [ps |-> ps, clues |-> found]
    ELSE LET clue == gd.pistas[i]
             hit == /\ ~clue.conditions_is_array
                    /\ clue.discovery_conditions[1].character_id = characterId
                    /\ ~Includes(ps.discoveredClues, clue.clue_id)
         IN IF hit
            THEN CluesByCharacterFrom(gd,
                     [ps EXCEPT !.discoveredClues = Append(@, clue.clue_id)],
                     characterId, i + 1, Append(found, clue.clue_id))
            ELSE CluesByCharacterFrom(gd, ps, characterId, i + 1, found)

discoverCluesByCharacter(gd, ps, characterId) ==
    CluesByCharacterFrom(gd, ps, characterId, 1, <<>>)

skillMapping ==
    [objectId \in 1..20 |->
        CASE objectId \in {1, 4, 6, 7, 12, 17} -> "conhecimento_historico"
          [] objectId \in {2, 5, 13, 14, 16, 19} -> "conexao_informacoes"
          [] objectId \in {3, 10, 11, 15, 18, 20} -> "analise_evidencias"
          [] objectId = 8 -> "descoberta_ambiental"
          [] objectId = 9 -> "interpretacao_comportamento"]

increaseSkillByObject(ps, objectId) ==
    IF HasKey(skillMapping, objectId)
    THEN LET skill == skillMapping[objectId]
             raised == [ps EXCEPT !.skills[skill] = Min(@ + ObjectSkillGain, MaxSkill)]
         IN IF ~Includes(ps.examinedObjects, objectId)
            THEN [ps |-> [raised EXCEPT !.examinedObjects = Append(@, objectId)],
                  skill |-> skill]
            ELSE [ps |-> raised, skill |-> NullText]
    ELSE [ps |-> ps, skill |-> NullText]

RequirementMet(ps, req) ==
    CASE req.requirement_type = "evidence" /\ req.required_object_id # <<>> ->
            \E i \in DOMAIN req.required_object_id :
                Includes(ps.inventory, req.required_object_id[i])
      [] req.requirement_type = "knowledge" /\ req.required_object_id # <<>> ->
            \E i \in DOMAIN req.required_object_id :
                getObjectDiscoveryLevel(ps, req.required_object_id[i]) > 0
      [] req.requirement_type = "observation" /\ req.required_detail_id # <<>> ->
            \E i \in DOMAIN req.required_detail_id :
                \E areaKey \in DOMAIN ps.lastSeenDetails :
                    Includes(ps.lastSeenDetails[areaKey], req.required_detail_id[i])
      [] OTHER -> TRUE

checkDialogueRequirements(ps, trigger) ==
    \A i \in DOMAIN trigger.requirements : RequirementMet(ps, trigger.requirements[i])

collectObject(ps, objectId) ==
    IF ~Includes(ps.inventory, objectId)
    THEN [ps EXCEPT !.inventory = Append(@, objectId)]
    ELSE ps

markDetailAsSeen(ps, areaId, detailId) ==
    LET seen == IF HasKey(ps.lastSeenDetails, areaId) THEN ps.lastSeenDetails[areaId] ELSE <<>>
    IN [ps EXCEPT !.lastSeenDetails =
           Put(@, areaId, IF Includes(seen, detailId) THEN seen ELSE Append(seen, detailId))]

\* saveGame: the document handed to guest_saves.doc(playerId).set (its lastSaved
\* timestamp is left out)
saveData(ps, cache) ==
    [currentLocation |-> ps.currentLocation,
     currentArea |-> ps.currentArea,
     playerData |-> [inventory |-> ps.inventory,
                     discoveredClues |-> ps.discoveredClues,
                     characterLevels |-> ps.characterLevels,
                     locationLevels |-> ps.locationLevels,
                     objectLevels |-> ps.objectLevels,
                     lastSeenDetails |-> ps.lastSeenDetails,
                     skills |-> ps.skills,
                     examinedObjects |-> ps.examinedObjects,
                     caseSolved |-> ps.caseSolved,
                     finalScore |-> ps.finalScore,
                     solvedAt |-> ps.solvedAt],
     dynamicDetailsCache |-> cache]

-----------------------------------------------------------------------------
(* GameEngine.checkForTrigger *)

NoCharacter == [character_id |-> NullId, area_id |-> NullId, levels |-> <<>>]

\* checkForTrigger returned null
NoResult == [response |-> <<>>, levelUp |-> FALSE, newClues |-> <<>>]

DefaultSuccessResponse == <<"Voce descobriu algo importante!">>
DefaultFailResponse == <<"Nao tenho nada a dizer sobre isso.">>
DefaultOpenResponse == <<"Interessante pergunta...">>
FallbackDialogue == <<"Nao consigo responder a isso no momento.">>
Greeting == <<"Ola, em que posso ajudar?">>

OrElse(text, default) == IF text # <<>> THEN text ELSE default

\* TriggerMatches ignoring the level number: the triggers of every level fire
TriggerMatchesAnyLevel(character, charLevel, questionLower, i, j) ==
    LET keyword == toLowerCase(character.levels[i].triggers[j].trigger_keyword)
    IN keyword # <<>> /\ includes(questionLower, keyword)

\* the test of the two nested loops for the trigger j of the level i
TriggerMatches(character, charLevel, questionLower, i, j) ==
    LET level == character.levels[i]
        keyword == toLowerCase(level.triggers[j].trigger_keyword)
    IN /\ level.level_number <= charLevel
       /\ keyword # <<>>
       /\ includes(questionLower, keyword)

TriggerPositions(character) ==
    UNION {{<<i, j>> : j \in DOMAIN character.levels[i].triggers} :
              i \in DOMAIN character.levels}

\* the first trigger the loops reach that matches, <<0, 0>> if none does
FirstMatch(character, charLevel, playerQuestion) ==
    LET questionLower == toLowerCase(playerQuestion)
        hits == {p \in TriggerPositions(character) :
                    TriggerMatches(character, charLevel, questionLower, p[1], p[2])}
    IN IF hits = {} THEN <<0, 0>>
       ELSE CHOOSE p \in hits :
                \A q \in hits : p[1] < q[1] \/ (p[1] = q[1] /\ p[2] <= q[2])

(* What checkForTrigger does up to its return or its await:                *)
(*   "none"    no trigger matched, null is returned;                       *)
(*   "open"    the level is not defensive;                                 *)
(*   "fail"    the level is defensive and the requirements are not met;    *)
(*   "success" they are met and the character is at its last level;        *)
(*   "levelUp" they are met, the level is raised, the character's clues    *)
(*             are discovered and saveGame is awaited.                     *)
TriggerOutcome(ps, character, playerQuestion) ==
    LET charLevel == getCharacterLevel(ps, character.character_id)
        hit == FirstMatch(character, charLevel, playerQuestion)
    IN IF hit = <<0, 0>> THEN [kind |-> "none", response |-> <<>>]
       ELSE LET level == character.levels[hit[1]]
                trigger == level.triggers[hit[2]]
            IN IF level.is_defensive
               THEN IF checkDialogueRequirements(ps, trigger)
                    THEN [kind |-> IF charLevel < Len(character.levels) - 1
                                   THEN "levelUp" ELSE "success",
                          response |-> OrElse(trigger.success_response, DefaultSuccessResponse)]
                    ELSE [kind |-> "fail",
                          response |-> OrElse(trigger.fail_response, DefaultFailResponse)]
               ELSE [kind |-> "open",
                     response |-> OrElse(trigger.success_response, DefaultOpenResponse)]

-----------------------------------------------------------------------------
(* UIController: rendering *)

NoOptions == [details |-> <<>>, objects |-> <<>>, areas |-> <<>>, characters |-> <<>>]

\* takeBtn: the object whose 'Pegar este objeto' button the narrative holds
Narrative(kind, id, takeBtn) == [kind |-> kind, id |-> id, takeBtn |-> takeBtn]

NoNarrative == Narrative("none", NullId, NullId)

\* #result-modal hidden
NoVerdict == [title |-> "", score |-> NullScore, feedback |-> {}]

Toast(kind, id) == [kind |-> kind, id |-> id]

RECURSIVE MarkSeen(_, _, _)
MarkSeen(ps, areaId, details) ==
    IF details = <<>> THEN ps
    ELSE MarkSeen(markDetailAsSeen(ps, areaId, Head(details).detail_id), areaId, Tail(details))

hasObjectsOrCharacters(gd, ps) ==
    \/ getObjectsInArea(gd, ps, ps.currentLocation, ps.currentArea) # <<>>
    \/ getCharactersInArea(gd, ps.currentLocation, ps.currentArea) # <<>>

\* buildOptions without the level filter: every detail of the area is offered
buildOptionsUnfiltered(gd, ps) ==
    LET area == getCurrentArea(gd, ps)
        location == getCurrentLocation(gd, ps)
        visibleDetails ==
            area.details
        explore == visibleDetails # <<>> \/ hasObjectsOrCharacters(gd, ps)
        connected ==
            SelectSeq(area.connected_areas,
                LAMBDA areaId : /\ AreaIndex(location, areaId) # 0
                                /\ location.areas[AreaIndex(location, areaId)].initially_visible)
    IN [ps |-> IF explore THEN MarkSeen(ps, ps.currentArea, visibleDetails) ELSE ps,
        options |->
           [details |-> IF explore THEN visibleDetails ELSE <<>>,
            objects |-> IF explore
                        THEN getObjectsInArea(gd, ps, ps.currentLocation, ps.currentArea)
                        ELSE <<>>,
            areas |-> [i \in DOMAIN connected |->
                          location.areas[AreaIndex(location, connected[i])]],
            characters |-> getCharactersInArea(gd, ps.currentLocation, ps.currentArea)]]

\* buildOptions: the buttons it renders and the player state it leaves
buildOptions(gd, ps) ==
    LET area == getCurrentArea(gd, ps)
        location == getCurrentLocation(gd, ps)
        visibleDetails ==
            SelectSeq(area.details,
                LAMBDA d : d.discovery_level_required <=
                               getLocationDiscoveryLevel(ps, ps.currentArea))
        explore == visibleDetails # <<>> \/ hasObjectsOrCharacters(gd, ps)
        connected ==
            SelectSeq(area.connected_areas,
                LAMBDA areaId : /\ AreaIndex(location, areaId) # 0
                                /\ location.areas[AreaIndex(location, areaId)].initially_visible)
    IN [ps |-> IF explore THEN MarkSeen(ps, ps.currentArea, visibleDetails) ELSE ps,
        options |->
           [details |-> IF explore THEN visibleDetails ELSE <<>>,
            objects |-> IF explore
                        THEN getObjectsInArea(gd, ps, ps.currentLocation, ps.currentArea)
                        ELSE <<>>,
            areas |-> [i \in DOMAIN connected |->
                          location.areas[AreaIndex(location, connected[i])]],
            characters |-> getCharactersInArea(gd, ps.currentLocation, ps.currentArea)]]

\* updateGameDisplay: returns without a change when the location or area is invalid
updateGameDisplay(gd, ps, view) ==
    IF ~HasCurrentArea(gd, ps)
    THEN [ps |-> ps, narrative |-> view.narrative, options |-> view.options]
    ELSE LET built == buildOptions(gd, ps)
         IN [ps |-> built.ps,
             narrative |-> Narrative("area", ps.currentArea, NullId),
             options |-> built.options]

View == [narrative |-> narrative, options |-> options]

-----------------------------------------------------------------------------
(* Firestore and the async handlers in flight *)

TypedIds == {"p1"}          \* what the player types into #player-id-input
SessionIds == {"guest_1"}   \* what generateSessionId can return

\* guest_saves after saveGame: nothing is written without a player id
SaveWrite(saves, ps, cache) ==
    IF ps.playerId # NullText THEN Put(saves, ps.playerId, saveData(ps, cache))
    ELSE saves

Waiting(kind, playerId, charId, level, text) ==
    [kind |-> kind, playerId |-> playerId, charId |-> charId, level |-> level, text |-> text]

(* The cloud function generateNPCDialogue: the knowledge put into the      *)
(* system prompt, one knowledge_scope after the other.                     *)
\* every knowledge_scope followed by a blank, in the order of the levels
Joined(levels) ==
    [i \in 1..(2 * Len(levels)) |->
        IF i % 2 = 1 THEN levels[(i + 1) \div 2].knowledge_scope ELSE " "]

\* the knowledge of every level of the character, reached or not
NPCKnowledgeOfAllLevels(levels, characterLevel) ==
    Joined(levels)

NPCKnowledge(levels, characterLevel) ==
    Joined(SelectSeq(levels, LAMBDA level : level.level_number <= characterLevel))

\* the messages the cloud function sends to the chat completion
NPCPrompt(character, characterLevel, question) ==
    [system |-> [character_id |-> character.character_id,
                 knowledge |-> NPCKnowledge(character.levels, characterLevel)],
     user |-> question]

\* GameEngine.generateNPCDialogue: the call in flight, with the prompt the
\* cloud function builds from its data
DialogueCall(ps, character, question) ==
    [kind |-> "generateNPCDialogue", playerId |-> ps.playerId,
     charId |-> character.character_id,
     level |-> getCharacterLevel(ps, character.character_id),
     text |-> question,
     prompt |-> NPCPrompt(character, getCharacterLevel(ps, character.character_id),
                          question)]

RemoveAt(seq, i) == SubSeq(seq, 1, i - 1) \o SubSeq(seq, i + 1, Len(seq))

Range(seq) == {seq[i] : i \in DOMAIN seq}

Message(speaker, message, type) == [speaker |-> speaker, message |-> message, type |-> type]

\* the reply of the text-generation backend to a question
AIReply(question) == <<"AI">> \o question

\* the questions of the player in the messages container
PlayerMessages(log) == Cardinality({i \in DOMAIN log : log[i].type = "player"})

Tick == nactions < MaxActions /\ nactions' = nactions + 1

\* moveToArea followed by the display of the area
Moved(gd, ps, areaId) ==
    updateGameDisplay(gd, [ps EXCEPT !.currentArea = areaId],
                      [narrative |-> NoNarrative, options |-> NoOptions])

\* exploreDetail: the state saved (with the clue) and the state left in memory
Explored(gd, ps, detailId) ==
    LET found == discoverClueByDetail(gd, ps, ps.currentLocation, ps.currentArea, detailId)
    IN [saved |-> found.ps, ps |-> increaseLocationDiscovery(found.ps, found.ps.currentArea)]

(* What guest_saves holds when the page is opened: nothing, or the save of *)
(* an earlier session in which p1 began a game, explored detail 3 of the   *)
(* first area, looked into the second area, came back and asked character  *)
(* 5 the question that raised its level, which made checkForTrigger save.  *)
EarlierSession ==
    LET begun == [InitialPlayerState EXCEPT !.playerId = "p1",
                                            !.currentLocation = StartingLocation(Story),
                                            !.currentArea = StartingArea(Story)]
        explored == Explored(Story, Moved(Story, begun, begun.currentArea).ps, 3).ps
        back == Moved(Story, Moved(Story, explored, 2).ps, 1).ps
        raised == [back EXCEPT !.characterLevels = Put(@, 5, 1)]
    IN discoverCluesByCharacter(Story, raised, 5).ps

EarlierSaves ==
    {<<>>, SaveWrite(<<>>, EarlierSession, [descriptions |-> <<>>, details |-> <<>>])}

-----------------------------------------------------------------------------
(* The AI provider manager (firebase-config.js).  The model names of the   *)
(* configuration and the options of a request (temperature, maxTokens)     *)
(* are left out; a text typed into a field is a sequence of characters.    *)

\* a sequence of characters as the string it spells
RECURSIVE Spelled(_)
Spelled(s) == IF s = <<>> THEN "" ELSE Head(s) \o Spelled(Tail(s))

\* getAvailableProviders: the ids of the provider cards
AvailableProviders == {"gemini", "ollama", "openai", "claude", "deepseek", "perplexity"}

DefaultOllamaUrl == "http://localhost:11434"

\* loadConfig without a saved configuration
DefaultConfig ==
    [gemini |-> [apiKey |-> ""], openai |-> [apiKey |-> ""], claude |-> [apiKey |-> ""],
     deepseek |-> [apiKey |-> ""], ollama |-> [baseUrl |-> DefaultOllamaUrl],
     perplexity |-> [apiKey |-> ""]]

loadConfig(storage) ==
    IF HasKey(storage, "enigma_ai_config") THEN storage["enigma_ai_config"] ELSE DefaultConfig

\* new AIProviderManager()
AIProviderManager(storage) ==
    [currentProvider |-> IF HasKey(storage, "enigma_ai_provider")
                         THEN storage["enigma_ai_provider"] ELSE "gemini",
     config |-> loadConfig(storage)]

\* { ...old, ...new }
Spread(old, new) ==
    [k \in (DOMAIN old) \cup (DOMAIN new) |-> IF k \in DOMAIN new THEN new[k] ELSE old[k]]

\* updateProviderConfig: the configuration after the update
updateProviderConfig(config, provider, update) ==
    [config EXCEPT ![provider] = Spread(@, update)]

\* what fetch is called with: the URL, the key sent along, the prompt
Request(url, apiKey, prompt) == [url |-> url, apiKey |-> apiKey, prompt |-> prompt]

\* the outcome of a call up to its first await: a request sent, or an error thrown
Sent(request) == [sent |-> <<request>>, error |-> ""]
Thrown(message) == [sent |-> <<>>, error |-> message]

\* generateWithGemini, -OpenAI, -Claude, -DeepSeek, -Perplexity up to fetch
generateWithKey(name, url, config, prompt) ==
    IF config.apiKey = "" THEN Thrown(name \o " API key not configured")
    ELSE Sent(Request(url, config.apiKey, prompt))

\* generateWithOllama up to fetch
generateWithOllama(config, prompt) ==
    Sent(Request(config.baseUrl \o "/api/generate", "", prompt))

\* generateText sending what it cannot place to Gemini
generateTextWithDefaultProvider(manager, prompt) ==
    LET provider == manager.currentProvider
        config == manager.config[IF provider \in AvailableProviders THEN provider ELSE "gemini"]
    IN CASE provider = "ollama" -> generateWithOllama(config, prompt)
         [] provider = "openai" ->
              generateWithKey("OpenAI", "https://api.openai.com/v1/chat/completions", config, prompt)
         [] provider = "claude" ->
              generateWithKey("Claude", "https://api.anthropic.com/v1/messages", config, prompt)
         [] provider = "deepseek" ->
              generateWithKey("DeepSeek", "https://api.deepseek.com/v1/chat/completions", config, prompt)
         [] provider = "perplexity" ->
              generateWithKey("Perplexity", "https://api.perplexity.ai/chat/completions", config, prompt)
         [] OTHER ->
              generateWithKey("Gemini", "https://generativelanguage.googleapis.com/v1beta/models", config, prompt)

\* generateText up to the await of fetch
generateText(manager, prompt) ==
    LET provider == manager.currentProvider
        config == manager.config[provider]
    IN CASE provider = "gemini" ->
              generateWithKey("Gemini", "https://generativelanguage.googleapis.com/v1beta/models", config, prompt)
         [] provider = "ollama" -> generateWithOllama(config, prompt)
         [] provider = "openai" ->
              generateWithKey("OpenAI", "https://api.openai.com/v1/chat/completions", config, prompt)
         [] provider = "claude" ->
              generateWithKey("Claude", "https://api.anthropic.com/v1/messages", config, prompt)
         [] provider = "deepseek" ->
              generateWithKey("DeepSeek", "https://api.deepseek.com/v1/chat/completions", config, prompt)
         [] provider = "perplexity" ->
              generateWithKey("Perplexity", "https://api.perplexity.ai/chat/completions", config, prompt)
         [] OTHER -> Thrown("Provider " \o provider \o " not supported")

\* generateStory is not running
NoGeneration == [pc |-> "idle"]

\* no cloud function is being called
NoCall == [pc |-> "idle"]

\* both modals hidden, the generate button as the page has it
NoModals == [settings |-> FALSE, storyGenerator |-> FALSE, generateBtn |-> "enabled",
             message |-> ""]

\* new AIUIController(): the AI side of the page over what localStorage holds
AIOpened(storage) ==
    /\ localStorage = storage
    /\ aiProvider = AIProviderManager(storage)
    /\ requests = <<>>
    /\ generated_stories = <<>>
    /\ generation = NoGeneration
    /\ aiModals = NoModals
    /\ backend = NoCall

\* the AI side of the page when it is opened with an empty localStorage
AIInit == AIOpened(<<>>)

\* the upload script is not running
NoRun == [pc |-> "idle"]

\* the database as the page sees it; the upload script at rest
UploadInit ==
    /\ game_data = <<>>
    /\ uploader = NoRun

(* State after construction: `new UIController()` up to the await in init  *)

PageInit ==
    /\ gameData = EmptyGameData
    /\ playerState = InitialPlayerState
    /\ dynamicDetailsCache = [descriptions |-> <<>>, details |-> <<>>]
    /\ guest_saves \in EarlierSaves
    /\ screen = "loading-screen"
    /\ options = NoOptions
    /\ conversationPanel = FALSE
    /\ narrative = NoNarrative
    /\ currentCharacter = NoCharacter
    /\ conversationLog = <<>>
    /\ savedGamesList = {}
    /\ triggerResult = NoResult
    /\ pending = <<>>
    /\ notifications = {}
    /\ handlerFailed = FALSE
    /\ nactions = 0
    /\ accusationModal = "hidden"
    /\ resultModal = NoVerdict

Init ==
    /\ PageInit
    /\ AIInit
    /\ UploadInit

\* init: loadGameData has read game_data; the listeners are set up
InitApp ==
    /\ screen = "loading-screen"
    /\ gameData = EmptyGameData
    /\ gameData' = Story
    /\ playerState' =
         IF StartingLocation(Story) = NullId THEN playerState
         ELSE [playerState EXCEPT
                 !.currentLocation = StartingLocation(Story),
                 !.currentArea = IF StartingArea(Story) = NullId THEN @ ELSE StartingArea(Story)]
    /\ screen' = "main-menu"
    /\ notifications' = {}
    /\ UNCHANGED <<dynamicDetailsCache, guest_saves, options, conversationPanel, narrative,
                   currentCharacter, conversationLog, savedGamesList, triggerResult,
                   pending, handlerFailed, nactions>>
    /\ UNCHANGED <<accusationVars, aiVars, uploadVars>>

-----------------------------------------------------------------------------
(* Menus *)

ShowNewGameScreen ==
    /\ Tick
    /\ screen = "main-menu"
    /\ screen' = "player-id-screen"
    /\ notifications' = {}
    /\ UNCHANGED <<gameData, playerState, dynamicDetailsCache, guest_saves, options,
                   conversationPanel, narrative, currentCharacter, conversationLog,
                   savedGamesList, triggerResult, pending, handlerFailed>>
    /\ UNCHANGED <<accusationVars, aiVars, uploadVars>>

\* showLoadGameScreen with the list that listSavedGames returns
ShowLoadGameScreen ==
    /\ Tick
    /\ screen = "main-menu"
    /\ screen' = "load-game-screen"
    /\ savedGamesList' = DOMAIN guest_saves
    /\ notifications' = {}
    /\ UNCHANGED <<gameData, playerState, dynamicDetailsCache, guest_saves, options,
                   conversationPanel, narrative, currentCharacter, conversationLog,
                   triggerResult, pending, handlerFailed>>
    /\ UNCHANGED <<accusationVars, aiVars, uploadVars>>

\* btn-cancel-new-game, btn-cancel-load
ShowMainMenu ==
    /\ Tick
    /\ screen \in {"player-id-screen", "load-game-screen"}
    /\ screen' = "main-menu"
    /\ notifications' = {}
    /\ UNCHANGED <<gameData, playerState, dynamicDetailsCache, guest_saves, options,
                   conversationPanel, narrative, currentCharacter, conversationLog,
                   savedGamesList, triggerResult, pending, handlerFailed>>
    /\ UNCHANGED <<accusationVars, aiVars, uploadVars>>

\* startNewGame up to `await this.checkSaveExists(playerId)`
StartNewGame(input) ==
    /\ Tick
    /\ screen = "player-id-screen"
    /\ Len(pending) < MaxPending
    /\ \E playerId \in IF input # "" THEN {input}
                       ELSE SessionIds \ (DOMAIN guest_saves \cup {playerState.playerId}
                                          \cup {pending[i].playerId : i \in DOMAIN pending}) :
          pending' = Append(pending, Waiting("checkSaveExists", playerId, NullId, 0, <<>>))
    /\ notifications' = {}
    /\ UNCHANGED <<gameData, playerState, dynamicDetailsCache, guest_saves, screen, options,
                   conversationPanel, narrative, currentCharacter, conversationLog,
                   savedGamesList, triggerResult, handlerFailed>>
    /\ UNCHANGED <<accusationVars, aiVars, uploadVars>>

\* startNewGame from the answer of checkSaveExists to `await saveGame()`;
\* readFails: the read threw and checkSaveExists answered false
NewGameChecked(i, readFails, overwrite) ==
    /\ i \in DOMAIN pending
    /\ pending[i].kind = "checkSaveExists"
    /\ LET playerId == pending[i].playerId
           saveExists == ~readFails /\ HasKey(guest_saves, playerId)
       IN IF saveExists /\ ~overwrite
          THEN /\ pending' = RemoveAt(pending, i)
               /\ UNCHANGED <<playerState, guest_saves>>
          ELSE /\ playerState' = [playerState EXCEPT !.playerId = playerId]
               /\ guest_saves' = SaveWrite(guest_saves, playerState', dynamicDetailsCache)
               /\ pending' = Append(RemoveAt(pending, i),
                                    Waiting("newGameSaved", playerId, NullId, 0, <<>>))
    /\ notifications' = {}
    /\ UNCHANGED <<gameData, dynamicDetailsCache, screen, options, conversationPanel,
                   narrative, currentCharacter, conversationLog, savedGamesList,
                   triggerResult, handlerFailed, nactions>>
    /\ UNCHANGED <<accusationVars, aiVars, uploadVars>>

\* showGameScreen
ShowGameScreen(ps) ==
    LET shown == updateGameDisplay(gameData, ps, View)
    IN /\ screen' = "game-screen"
       /\ playerState' = shown.ps
       /\ narrative' = shown.narrative
       /\ options' = shown.options

\* startNewGame after `await saveGame()`
NewGameSaved(i) ==
    /\ i \in DOMAIN pending
    /\ pending[i].kind = "newGameSaved"
    /\ pending' = RemoveAt(pending, i)
    /\ ShowGameScreen(playerState)
    /\ notifications' = {}
    /\ UNCHANGED <<gameData, dynamicDetailsCache, guest_saves, conversationPanel,
                   currentCharacter, conversationLog, savedGamesList, triggerResult,
                   handlerFailed, nactions>>
    /\ UNCHANGED <<accusationVars, aiVars, uploadVars>>

\* UIController.loadGame and GameEngine.loadGame up to the await of the read
LoadGame(playerId) ==
    /\ Tick
    /\ screen = "load-game-screen"
    /\ playerId \in savedGamesList
    /\ Len(pending) < MaxPending
    /\ playerState' = [playerState EXCEPT !.playerId = playerId]
    /\ pending' = Append(pending, Waiting("loadGame", playerId, NullId, 0, <<>>))
    /\ notifications' = {}
    /\ UNCHANGED <<gameData, dynamicDetailsCache, guest_saves, screen, options,
                   conversationPanel, narrative, currentCharacter, conversationLog,
                   savedGamesList, triggerResult, handlerFailed>>
    /\ UNCHANGED <<accusationVars, aiVars, uploadVars>>

\* loadGame with the fields of playerData left as they are in memory
LoadedStateKeepingData(ps, doc) ==
    [ps EXCEPT !.currentLocation = doc.currentLocation, !.currentArea = doc.currentArea]

\* GameEngine.loadGame: the player state after the document has been read
LoadedState(ps, doc) ==
    LET data == doc.playerData
    IN [playerId |-> ps.playerId,
        currentLocation |-> doc.currentLocation,
        currentArea |-> doc.currentArea,
        inventory |-> data.inventory,
        discoveredClues |-> data.discoveredClues,
        characterLevels |-> data.characterLevels,
        locationLevels |-> data.locationLevels,
        objectLevels |-> data.objectLevels,
        lastSeenDetails |-> data.lastSeenDetails,
        skills |-> data.skills,
        examinedObjects |-> data.examinedObjects,
        caseSolved |-> data.caseSolved,
        finalScore |-> data.finalScore,
        solvedAt |-> data.solvedAt]

\* GameEngine.loadGame from the answer of the read, then UIController.loadGame
GameLoaded(i, readFails) ==
    /\ i \in DOMAIN pending
    /\ pending[i].kind = "loadGame"
    /\ pending' = RemoveAt(pending, i)
    /\ IF readFails \/ ~HasKey(guest_saves, pending[i].playerId)
       THEN /\ notifications' = {Toast("alert: Erro ao carregar o jogo.", 0)}
            /\ UNCHANGED <<playerState, dynamicDetailsCache, screen, narrative, options>>
       ELSE LET doc == guest_saves[pending[i].playerId]
            IN /\ dynamicDetailsCache' = doc.dynamicDetailsCache
               /\ ShowGameScreen(LoadedState(playerState, doc))
               /\ notifications' = {}
    /\ UNCHANGED <<gameData, guest_saves, conversationPanel, currentCharacter,
                   conversationLog, savedGamesList, triggerResult, handlerFailed,
                   nactions>>
    /\ UNCHANGED <<accusationVars, aiVars, uploadVars>>

-----------------------------------------------------------------------------
(* Game screen: side panel *)

\* btn-save: UIController.saveGame
SaveGameButton ==
    /\ Tick
    /\ screen = "game-screen"
    /\ guest_saves' = SaveWrite(guest_saves, playerState, dynamicDetailsCache)
    /\ notifications' = IF playerState.playerId # NullText
                        THEN {Toast("Jogo salvo com sucesso!", 0)}
                        ELSE {Toast("Erro ao salvar o jogo.", 0)}
    /\ UNCHANGED <<gameData, playerState, dynamicDetailsCache, screen, options,
                   conversationPanel, narrative, currentCharacter, conversationLog,
                   savedGamesList, triggerResult, pending, handlerFailed>>
    /\ UNCHANGED <<accusationVars, aiVars, uploadVars>>

\* btn-menu: showGameMenu, the player confirming the exit
ShowGameMenu ==
    /\ Tick
    /\ screen = "game-screen"
    /\ guest_saves' = SaveWrite(guest_saves, playerState, dynamicDetailsCache)
    /\ screen' = "main-menu"
    /\ notifications' = {}
    /\ UNCHANGED <<gameData, playerState, dynamicDetailsCache, options, conversationPanel,
                   narrative, currentCharacter, conversationLog, savedGamesList,
                   triggerResult, pending, handlerFailed>>
    /\ UNCHANGED <<accusationVars, aiVars, uploadVars>>

-----------------------------------------------------------------------------
(* Game screen: the option buttons, clickable while #options-container shows *)

OptionsShown == screen = "game-screen" /\ ~conversationPanel

\* the click on the k-th 'Explorar' button
ExploreDetail(k) ==
    /\ Tick
    /\ OptionsShown
    /\ k \in DOMAIN options.details
    /\ LET detail == options.details[k]
           found == discoverClueByDetail(gameData, playerState, playerState.currentLocation,
                                         playerState.currentArea, detail.detail_id)
       IN /\ narrative' = Narrative("detail", detail.detail_id, NullId)
          /\ notifications' = IF found.clue # NullId THEN {Toast("newClue", found.clue)} ELSE {}
          /\ guest_saves' = IF found.clue # NullId
                            THEN SaveWrite(guest_saves, found.ps, dynamicDetailsCache)
                            ELSE guest_saves
          /\ playerState' = increaseLocationDiscovery(found.ps, found.ps.currentArea)
    /\ UNCHANGED <<gameData, dynamicDetailsCache, screen, options, conversationPanel,
                   currentCharacter, conversationLog, savedGamesList, triggerResult,
                   pending, handlerFailed>>
    /\ UNCHANGED <<accusationVars, aiVars, uploadVars>>

\* the click on the k-th 'Examinar' button
ExamineObject(k) ==
    /\ Tick
    /\ OptionsShown
    /\ k \in DOMAIN options.objects
    /\ LET obj == options.objects[k]
           level == getObjectDiscoveryLevel(playerState, obj.object_id)
       IN IF level + 1 \notin DOMAIN obj.levels
          THEN \* obj.levels[level] is undefined: the handler throws
               /\ handlerFailed' = TRUE
               /\ notifications' = {}
               /\ UNCHANGED <<playerState, narrative, options>>
          ELSE LET takeBtn == IF obj.is_collectible
                                 /\ ~Includes(playerState.inventory, obj.object_id)
                              THEN obj.object_id ELSE NullId
                   examined == Narrative("object", obj.object_id, takeBtn)
                   raised == increaseSkillByObject(playerState, obj.object_id)
                   shown == updateGameDisplay(gameData, raised.ps,
                                [narrative |-> examined, options |-> options])
               IN /\ notifications' = IF raised.skill # NullText
                                      THEN {Toast(raised.skill, obj.object_id)} ELSE {}
                  /\ playerState' = shown.ps
                  /\ narrative' = shown.narrative
                  /\ options' = shown.options
                  /\ UNCHANGED handlerFailed
    /\ UNCHANGED <<gameData, dynamicDetailsCache, guest_saves, screen, conversationPanel,
                   currentCharacter, conversationLog, savedGamesList, triggerResult, pending>>
    /\ UNCHANGED <<accusationVars, aiVars, uploadVars>>

(* The click on 'Pegar este objeto'.  It is not a disjunct of Next: the     *)
(* button is appended by examineObject, whose own updateGameDisplay        *)
(* replaces the narrative before any event can be dispatched               *)
(* (TakeButtonNeverShown).                                                  *)
TakeObject ==
    /\ Tick
    /\ screen = "game-screen"
    /\ narrative.takeBtn # NullId
    /\ LET collected == collectObject(playerState, narrative.takeBtn)
           shown == updateGameDisplay(gameData, collected, View)
       IN /\ guest_saves' = SaveWrite(guest_saves, collected, dynamicDetailsCache)
          /\ playerState' = shown.ps
          /\ narrative' = shown.narrative
          /\ options' = shown.options
    /\ notifications' = {Toast("pegou", narrative.takeBtn)}
    /\ UNCHANGED <<gameData, dynamicDetailsCache, screen, conversationPanel, currentCharacter,
                   conversationLog, savedGamesList, triggerResult, pending,
                   handlerFailed>>
    /\ UNCHANGED <<accusationVars, aiVars, uploadVars>>

\* the click on the k-th 'Ir para' button
MoveToArea(k) ==
    /\ Tick
    /\ OptionsShown
    /\ k \in DOMAIN options.areas
    /\ LET targetArea == options.areas[k]
           moved == [playerState EXCEPT !.currentArea = targetArea.area_id]
           shown == updateGameDisplay(gameData, moved, View)
       IN /\ playerState' = shown.ps
          /\ narrative' = shown.narrative
          /\ options' = shown.options
          /\ notifications' = {Toast("moveu", targetArea.area_id)}
    /\ UNCHANGED <<gameData, dynamicDetailsCache, guest_saves, screen, conversationPanel,
                   currentCharacter, conversationLog, savedGamesList, triggerResult,
                   pending, handlerFailed>>
    /\ UNCHANGED <<accusationVars, aiVars, uploadVars>>

\* the click on the k-th 'Falar com' button
StartConversation(k) ==
    /\ Tick
    /\ OptionsShown
    /\ k \in DOMAIN options.characters
    /\ LET character == options.characters[k]
       IN /\ currentCharacter' = character
          /\ narrative' = Narrative("conversation", character.character_id, NullId)
          /\ conversationLog' = <<Message(character.character_id, Greeting, "npc")>>
    /\ conversationPanel' = TRUE
    /\ notifications' = {}
    /\ UNCHANGED <<gameData, playerState, dynamicDetailsCache, guest_saves, screen, options,
                   savedGamesList, triggerResult, pending, handlerFailed>>
    /\ UNCHANGED <<accusationVars, aiVars, uploadVars>>

-----------------------------------------------------------------------------
(* Game screen: the conversation panel *)

RaiseMessageSkill(ps) ==
    [ps EXCEPT !.skills.interpretacao_comportamento = Min(@ + MessageSkillGain, MaxSkill)]

(* sendMessage from the trigger result on: the reply is attributed to      *)
(* this.currentCharacter as it is now; when it is null the handler throws. *)
TriggerReplied(ps, log, result) ==
    IF currentCharacter = NoCharacter
    THEN /\ handlerFailed' = TRUE
         /\ playerState' = ps
         /\ conversationLog' = log
         /\ notifications' = {}
         /\ UNCHANGED <<narrative, options>>
    ELSE LET shown == updateGameDisplay(gameData, ps, View)
         IN /\ conversationLog' =
                  Append(log, Message(currentCharacter.character_id, result.response, "npc"))
            /\ notifications' =
                  (IF result.levelUp THEN {Toast("relationship", 0)} ELSE {})
                  \cup {Toast("newClue", c) : c \in Range(result.newClues)}
            /\ playerState' = RaiseMessageSkill(shown.ps)
            /\ narrative' = shown.narrative
            /\ options' = shown.options
            /\ UNCHANGED handlerFailed

(* btn-send-message or Enter: sendMessage with the text of the input, up   *)
(* to the first await that waits for the network (the write of saveGame in *)
(* checkForTrigger, or the generateNPCDialogue call), or to its end when   *)
(* checkForTrigger returns without one.                                    *)
SendMessage(input) ==
    /\ Tick
    /\ screen = "game-screen"
    /\ conversationPanel
    /\ currentCharacter # NoCharacter
    /\ Len(pending) < MaxPending
    /\ PlayerMessages(conversationLog) < MaxMessages
    /\ trim(input) # <<>>
    /\ LET question == trim(input)
           log == Append(conversationLog, Message(NullId, question, "player"))
           character == currentCharacter
           charId == character.character_id
           charLevel == getCharacterLevel(playerState, charId)
           outcome == TriggerOutcome(playerState, character, question)
       IN CASE outcome.kind = "none" ->
                 /\ triggerResult' = NoResult
                 /\ conversationLog' = log
                 /\ pending' = Append(pending, DialogueCall(playerState, character, question))
                 /\ notifications' = {}
                 /\ UNCHANGED <<playerState, guest_saves, narrative, options, handlerFailed>>
            [] outcome.kind \in {"open", "fail"} ->
                 LET result == [response |-> outcome.response, levelUp |-> FALSE,
                                newClues |-> <<>>]
                 IN /\ triggerResult' = result
                    /\ TriggerReplied(playerState, log, result)
                    /\ UNCHANGED <<guest_saves, pending>>
            [] outcome.kind = "success" ->
                 LET found == discoverCluesByCharacter(gameData, playerState, charId)
                     result == [response |-> outcome.response, levelUp |-> TRUE,
                                newClues |-> found.clues]
                 IN /\ triggerResult' = result
                    /\ TriggerReplied(found.ps, log, result)
                    /\ UNCHANGED <<guest_saves, pending>>
            [] outcome.kind = "levelUp" ->
                 LET raised == [playerState EXCEPT
                                   !.characterLevels = Put(@, charId, charLevel + 1)]
                     found == discoverCluesByCharacter(gameData, raised, charId)
                 IN /\ playerState' = found.ps
                    /\ guest_saves' = SaveWrite(guest_saves, found.ps, dynamicDetailsCache)
                    /\ conversationLog' = log
                    /\ pending' = Append(pending,
                           Spread(Waiting("checkForTrigger", playerState.playerId, charId,
                                          charLevel, outcome.response),
                                  [newClues |-> found.clues]))
                    /\ notifications' = {}
                    /\ UNCHANGED <<triggerResult, narrative, options, handlerFailed>>
    /\ UNCHANGED <<gameData, dynamicDetailsCache, screen, conversationPanel, currentCharacter,
                   savedGamesList>>
    /\ UNCHANGED <<accusationVars, aiVars, uploadVars>>

\* checkForTrigger after `await this.saveGame()`, then the rest of sendMessage
TriggerSaved(i) ==
    /\ i \in DOMAIN pending
    /\ pending[i].kind = "checkForTrigger"
    /\ pending' = RemoveAt(pending, i)
    /\ LET found == discoverCluesByCharacter(gameData, playerState, pending[i].charId)
           result == [response |-> pending[i].text, levelUp |-> TRUE,
                      newClues |-> found.clues]
       IN /\ triggerResult' = result
          /\ TriggerReplied(found.ps, conversationLog, result)
    /\ UNCHANGED <<gameData, dynamicDetailsCache, guest_saves, screen, conversationPanel,
                   currentCharacter, savedGamesList, nactions>>
    /\ UNCHANGED <<accusationVars, aiVars, uploadVars>>

(* sendMessage after `await generateNPCDialogue(...)`; failed: the call    *)
(* threw and generateNPCDialogue returned its fallback sentence.  With     *)
(* currentCharacter null the try block throws and so does the catch block. *)
DialogueGenerated(i, failed) ==
    /\ i \in DOMAIN pending
    /\ pending[i].kind = "generateNPCDialogue"
    /\ pending' = RemoveAt(pending, i)
    /\ IF currentCharacter = NoCharacter
       THEN /\ handlerFailed' = TRUE
            /\ UNCHANGED <<conversationLog, playerState>>
       ELSE /\ conversationLog' =
                 Append(conversationLog,
                        Message(currentCharacter.character_id,
                                IF failed THEN FallbackDialogue ELSE AIReply(pending[i].text),
                                "npc"))
            /\ playerState' = RaiseMessageSkill(playerState)
            /\ UNCHANGED handlerFailed
    /\ notifications' = {}
    /\ UNCHANGED <<gameData, dynamicDetailsCache, guest_saves, screen, options,
                   conversationPanel, narrative, currentCharacter, savedGamesList,
                   triggerResult, nactions>>
    /\ UNCHANGED <<accusationVars, aiVars, uploadVars>>

\* btn-end-conversation
EndConversation ==
    /\ Tick
    /\ screen = "game-screen"
    /\ conversationPanel
    /\ currentCharacter' = NoCharacter
    /\ conversationPanel' = FALSE
    /\ LET shown == updateGameDisplay(gameData, playerState, View)
       IN /\ playerState' = shown.ps
          /\ narrative' = shown.narrative
          /\ options' = shown.options
    /\ notifications' = {}
    /\ UNCHANGED <<gameData, dynamicDetailsCache, guest_saves, screen, conversationLog,
                   savedGamesList, triggerResult, pending, handlerFailed>>
    /\ UNCHANGED <<accusationVars, aiVars, uploadVars>>

-----------------------------------------------------------------------------
(* The accusation *)

MinEvidence == 5       \* showAccusationModal: minEvidence
CulpritScore == 50     \* processAccusation: the points for the culprit
MotiveScore == 25      \* processAccusation: the points for the motive
MethodScore == 25      \* processAccusation: the points for the method
NotANumber == -1       \* NaN

\* processAccusation: the least score of a successful accusation, set too low
SuccessScoreOfCulpritAlone == CulpritScore

\* processAccusation: the least score of a successful accusation
SuccessScore == 75

\* the value of an <option> of #suspect-select: the key of personagens as a string
OptionValue(charId) == ToString(charId)

\* what the player can select in #suspect-select: the placeholder or a character
SuspectValues(gd) == {""} \cup {OptionValue(charId) : charId \in DOMAIN gd.personagens}

\* parseInt of the value of a select option
parseInt(str) ==
    IF \E n \in 0..9 : ToString(n) = str
    THEN CHOOSE n \in 0..9 : ToString(n) = str
    ELSE NotANumber

\* new Date().toISOString(), the clock read off the number of events
Now == ToString(nactions)

getKeyEvidenceCount(gd, ps) ==
    Cardinality({i \in DOMAIN ps.discoveredClues :
                    \E j \in DOMAIN gd.pistas :
                        /\ gd.pistas[j].clue_id = ps.discoveredClues[i]
                        /\ gd.pistas[j].is_key_evidence})

\* keywords.some(keyword => textLower.includes(keyword.toLowerCase()))
MentionsKeyword(text, keywords) ==
    \E k \in DOMAIN keywords : includes(toLowerCase(text), toLowerCase(keywords[k]))

processAccusation(gd, ps, suspectId, motive, method, now) ==
    LET criteria == gd.historia_base.solution_criteria
        culpritCorrect == parseInt(suspectId) = criteria.culprit_id
        motiveCorrect == MentionsKeyword(motive, criteria.motive_keywords)
        methodCorrect == MentionsKeyword(method, criteria.method_keywords)
        score == (IF culpritCorrect THEN CulpritScore ELSE 0)
                 + (IF motiveCorrect THEN MotiveScore ELSE 0)
                 + (IF methodCorrect THEN MethodScore ELSE 0)
        success == score >= SuccessScore
    IN [ps |-> IF success
               THEN [ps EXCEPT !.caseSolved = TRUE, !.finalScore = score, !.solvedAt = now]
               ELSE ps,
        result |-> [success |-> success, score |-> score,
                    culpritCorrect |-> culpritCorrect, motiveCorrect |-> motiveCorrect,
                    methodCorrect |-> methodCorrect]]

\* showAccusationResult: the title, the score and the marks of the feedback
Verdict(result) ==
    IF result.success
    THEN [title |-> "Parabéns!", score |-> result.score, feedback |-> {}]
    ELSE [title |-> "Acusação Incompleta", score |-> result.score,
          feedback |-> {<<"culprit", result.culpritCorrect>>,
                        <<"motive", result.motiveCorrect>>,
                        <<"method", result.methodCorrect>>}]

\* what the player types as motive and as method: blanks, a text with a keyword
\* of the motive, one with the keyword of the method, one with neither
Statements == {<<" ">>, <<" ", "A", "b">>, <<"B", "a">>, <<"a">>}

\* the submit button enabled whatever the evidence
SubmitButtonAlwaysEnabled(gd, ps) == "enabled"

\* showAccusationModal: the submit button is disabled below the minimum
SubmitButton(gd, ps) ==
    IF getKeyEvidenceCount(gd, ps) < MinEvidence THEN "disabled" ELSE "enabled"

\* btn-accuse: showAccusationModal
ShowAccusationModal ==
    /\ Tick
    /\ screen = "game-screen"
    /\ accusationModal = "hidden"
    /\ resultModal = NoVerdict
    /\ accusationModal' = SubmitButton(gameData, playerState)
    /\ notifications' = {}
    /\ UNCHANGED <<gameData, playerState, dynamicDetailsCache, guest_saves, screen, options,
                   conversationPanel, narrative, currentCharacter, conversationLog,
                   savedGamesList, triggerResult, pending, handlerFailed, resultModal>>
    /\ UNCHANGED <<aiVars, uploadVars>>

\* btn-cancel-accusation
CancelAccusation ==
    /\ Tick
    /\ accusationModal # "hidden"
    /\ accusationModal' = "hidden"
    /\ notifications' = {}
    /\ UNCHANGED <<gameData, playerState, dynamicDetailsCache, guest_saves, screen, options,
                   conversationPanel, narrative, currentCharacter, conversationLog,
                   savedGamesList, triggerResult, pending, handlerFailed, resultModal>>
    /\ UNCHANGED <<aiVars, uploadVars>>

(* btn-submit-accusation: submitAccusation up to `await saveGame()`.  The  *)
(* waiting handler keeps its locals: the suspect and the result.           *)
SubmitAccusation(suspectId, motiveInput, methodInput) ==
    /\ Tick
    /\ accusationModal = "enabled"
    /\ Len(pending) < MaxPending
    /\ LET motive == trim(motiveInput)
           method == trim(methodInput)
       IN IF suspectId = "" \/ motive = <<>> \/ method = <<>>
          THEN /\ notifications' = {Toast("Por favor, preencha todos os campos.", 0)}
               /\ UNCHANGED <<playerState, guest_saves, pending, accusationModal>>
          ELSE LET accused == processAccusation(gameData, playerState, suspectId,
                                                motive, method, Now)
               IN /\ playerState' = accused.ps
                  /\ accusationModal' = "hidden"
                  /\ guest_saves' = SaveWrite(guest_saves, accused.ps, dynamicDetailsCache)
                  /\ pending' = Append(pending, [kind |-> "submitAccusation",
                                                 suspectId |-> suspectId,
                                                 result |-> accused.result])
                  /\ notifications' = {}
    /\ UNCHANGED <<gameData, dynamicDetailsCache, screen, options, conversationPanel,
                   narrative, currentCharacter, conversationLog, savedGamesList,
                   triggerResult, handlerFailed, resultModal>>
    /\ UNCHANGED <<aiVars, uploadVars>>

\* submitAccusation after `await saveGame()`: showAccusationResult
AccusationSaved(i) ==
    /\ i \in DOMAIN pending
    /\ pending[i].kind = "submitAccusation"
    /\ pending' = RemoveAt(pending, i)
    /\ resultModal' = Verdict(pending[i].result)
    /\ notifications' = {}
    /\ UNCHANGED <<gameData, playerState, dynamicDetailsCache, guest_saves, screen, options,
                   conversationPanel, narrative, currentCharacter, conversationLog,
                   savedGamesList, triggerResult, handlerFailed, nactions,
                   accusationModal>>
    /\ UNCHANGED <<aiVars, uploadVars>>

\* btn-close-result
CloseResult ==
    /\ Tick
    /\ resultModal # NoVerdict
    /\ resultModal' = NoVerdict
    /\ notifications' = {}
    /\ UNCHANGED <<gameData, playerState, dynamicDetailsCache, guest_saves, screen, options,
                   conversationPanel, narrative, currentCharacter, conversationLog,
                   savedGamesList, triggerResult, pending, handlerFailed, accusationModal>>
    /\ UNCHANGED <<aiVars, uploadVars>>

(* A story with five clues of key evidence, one behind each detail of the  *)
(* first two areas.                                                        *)
CasePistas ==
    [i \in 1..5 |->
        LET detailId == <<3, 1, 2, 6, 4>>[i]
        IN [clue_id |-> 20 + i, is_key_evidence |-> TRUE, conditions_is_array |-> FALSE,
            discovery_conditions |->
                <<Condition(1, IF detailId \in {1, 2, 3} THEN 1 ELSE 2, detailId, NullId)>>]]

CaseStory == [Story EXCEPT !.pistas = CasePistas]

(* The session of p1 on CaseStory at the moment the accusation comes up:   *)
(* the game just begun, or every detail of the first two areas explored    *)
(* (3, then 6 next door, 1, 4 next door, 2).                               *)
CaseBegun ==
    LET begun == [InitialPlayerState EXCEPT !.playerId = "p1",
                                            !.currentLocation = StartingLocation(CaseStory),
                                            !.currentArea = StartingArea(CaseStory)]
        shown == Moved(CaseStory, begun, begun.currentArea)
    IN [saved |-> begun, ps |-> shown.ps, narrative |-> shown.narrative,
        options |-> shown.options]

CaseInvestigated ==
    LET e3 == Explored(CaseStory, CaseBegun.ps, 3).ps
        e6 == Explored(CaseStory, Moved(CaseStory, e3, 2).ps, 6).ps
        e1 == Explored(CaseStory, Moved(CaseStory, e6, 1).ps, 1).ps
        e4 == Explored(CaseStory, Moved(CaseStory, e1, 2).ps, 4).ps
        back == Moved(CaseStory, e4, 1)
        e2 == Explored(CaseStory, back.ps, 2)
    IN [saved |-> e2.saved, ps |-> e2.ps, narrative |-> Narrative("detail", 2, NullId),
        options |-> back.options]

AccuseInit ==
    /\ gameData = CaseStory
    /\ \E session \in {CaseBegun, CaseInvestigated} :
          /\ playerState = session.ps
          /\ guest_saves = SaveWrite(<<>>, session.saved,
                                     [descriptions |-> <<>>, details |-> <<>>])
          /\ narrative = session.narrative
          /\ options = session.options
    /\ dynamicDetailsCache = [descriptions |-> <<>>, details |-> <<>>]
    /\ screen = "game-screen"
    /\ conversationPanel = FALSE
    /\ currentCharacter = NoCharacter
    /\ conversationLog = <<>>
    /\ savedGamesList = {}
    /\ triggerResult = NoResult
    /\ pending = <<>>
    /\ notifications = {}
    /\ handlerFailed = FALSE
    /\ nactions = 0
    /\ accusationModal = "hidden"
    /\ resultModal = NoVerdict
    /\ AIInit
    /\ UploadInit

AccuseNext ==
    \/ ShowAccusationModal
    \/ CancelAccusation
    \/ \E suspectId \in SuspectValues(gameData), motive, method \in Statements :
          SubmitAccusation(suspectId, motive, method)
    \/ \E i \in 1..MaxPending : AccusationSaved(i)
    \/ CloseResult
    \/ SaveGameButton

\* the accusations of a player in a session under way
AccuseSpec == AccuseInit /\ [][AccuseNext]_vars

-----------------------------------------------------------------------------
(* The upload script: upload-game-data.js and scripts/data-uploader.js     *)

(* What JSON.parse returns is a value with its type; readJSON returns null *)
(* for a file that cannot be read or parsed.                               *)
Unreadable == [type |-> "null"]
ObjectJSON(fields) == [type |-> "object", fields |-> fields]
ArrayJSON(items) == [type |-> "array", items |-> items]

HistoriaJSON == ObjectJSON([title |-> "estalagem", conclusion |-> "fim"])
SistemaJSON == ObjectJSON([categorias |-> "cinco"])
ObjetosJSON == ArrayJSON(<<[object_id |-> 1, name |-> "bau"], [object_id |-> 2, name |-> "chave"]>>)
PistasJSON == ArrayJSON(<<[clue_id |-> 1, name |-> "bilhete"]>>)

\* a file of ambientes/ or personagens/: an array of entries with their ids
EntriesJSON(ids, name) == ArrayJSON([i \in DOMAIN ids |-> [id |-> ids[i], name |-> name]])

(* What a directory of the story can hold: it is missing, it is empty, or  *)
(* it lists files: arrays of entries, a file whose ids repeat those of the *)
(* first, a file that cannot be parsed, a file that holds an object.       *)
Missing == [exists |-> FALSE, files |-> <<>>]
Listing(files) == [exists |-> TRUE, files |-> files]

Directories ==
    {Missing,
     Listing(<<>>),
     Listing(<<EntriesJSON(<<1>>, "a")>>),
     Listing(<<EntriesJSON(<<1, 2>>, "a"), EntriesJSON(<<3>>, "b")>>),
     Listing(<<EntriesJSON(<<1, 2>>, "a"), EntriesJSON(<<2>>, "b")>>),
     Listing(<<EntriesJSON(<<1>>, "a"), Unreadable>>),
     Listing(<<EntriesJSON(<<1>>, "a"), ObjectJSON([id |-> 2, name |-> "b"])>>)}

\* the story on disk
Disks ==
    [historia_base : {Unreadable, HistoriaJSON},
     ambientes : Directories,
     personagens : Directories,
     objetos : {Unreadable, ObjetosJSON},
     pistas : {Unreadable, PistasJSON},
     sistema_especializacao : {Unreadable, SistemaJSON}]

\* what the operator types at the prompt of confirmProduction
Answers ==
    {<<"s", "i", "m">>, <<"s">>, <<"S", "I", "M">>, <<"S">>, <<"S", "i", "m">>,
     <<>>, <<"n">>, <<"n", "a", "o">>, <<"s", "i">>, <<" ", "s">>, <<"s", "i", "m", " ">>}

NoExit == -1     \* the process is running

\* confirmProduction: the answer confirms whatever it is
confirmedByAnyAnswer(answer) ==
    TRUE

\* confirmProduction: answer.toLowerCase() === 'sim' || answer.toLowerCase() === 's'
confirmed(answer) ==
    toLowerCase(answer) = <<"s", "i", "m">> \/ toLowerCase(answer) = <<"s">>

\* the entries of the array files of a directory, in the order of the files;
\* a file that is not an array is passed over
RECURSIVE Entries(_)
Entries(files) ==
    IF files = <<>> THEN <<>>
    ELSE (IF Head(files).type = "array" THEN Head(files).items ELSE <<>>)
            \o Entries(Tail(files))

\* all[entry.id] = entry for each entry in turn: the first entry with an id stays
KeyedKeepingFirst(entries) ==
    [key \in {ToString(entries[i].id) : i \in DOMAIN entries} |->
        entries[CHOOSE i \in DOMAIN entries :
                    /\ ToString(entries[i].id) = key
                    /\ \A j \in DOMAIN entries : ToString(entries[j].id) = key => j >= i]]

\* all[entry.id] = entry for each entry in turn: the last entry with an id stays
Keyed(entries) ==
    [key \in {ToString(entries[i].id) : i \in DOMAIN entries} |->
        entries[CHOOSE i \in DOMAIN entries :
                    /\ ToString(entries[i].id) = key
                    /\ \A j \in DOMAIN entries : ToString(entries[j].id) = key => j <= i]]

\* uploadObjetos, uploadPistas: { items: data }
ItemsDocument(data) ==
    ObjectJSON([items |-> data])

\* a run of the script: its arguments, the key file, the disk
UploadRuns ==
    [pc : {"main"}, help : BOOLEAN, production : BOOLEAN, keyFile : BOOLEAN,
     disk : Disks, answered : {FALSE}, answer : {<<>>}, written : {<<>>},
     console : {<<>>}, exit : {NoExit}]

Exit(run, code, message) ==
    [run EXCEPT !.pc = "exited", !.exit = code,
                !.console = IF message = "" THEN @ ELSE Append(@, message)]

\* main up to `await confirmProduction()`, or to uploadAll in emulator mode
Main ==
    /\ uploader.pc = "main"
    /\ uploader' =
          IF uploader.help THEN Exit(uploader, 0, "usage")
          ELSE IF uploader.production /\ ~uploader.keyFile
               THEN Exit(uploader, 1, "Erro ao inicializar produção")
          ELSE IF uploader.production THEN [uploader EXCEPT !.pc = "confirmProduction"]
          ELSE [uploader EXCEPT !.pc = "uploadHistoriaBase"]
    /\ UNCHANGED game_data
    /\ UNCHANGED <<pageVars, accusationVars, aiVars>>

\* the operator answers the question of confirmProduction
Answer(answer) ==
    /\ uploader.pc = "confirmProduction"
    /\ uploader' =
          IF confirmed(answer)
          THEN [uploader EXCEPT !.pc = "uploadHistoriaBase", !.answered = TRUE,
                                !.answer = answer]
          ELSE Exit([uploader EXCEPT !.answered = TRUE, !.answer = answer], 0,
                    "Upload cancelado pelo usuário")
    /\ UNCHANGED game_data
    /\ UNCHANGED <<pageVars, accusationVars, aiVars>>

\* uploadAll catches the error, main exits with 1
Failed(run) == Exit(run, 1, "Erro durante upload")

\* doc(docId).set(data), the script carrying on after a write that failed
SetDocumentCarryingOn(docId, data, next, ok) ==
    IF ok
    THEN /\ game_data' = Put(game_data, docId, data)
         /\ uploader' = [uploader EXCEPT !.pc = next, !.written = Append(@, docId)]
    ELSE /\ uploader' = [uploader EXCEPT !.pc = next]
         /\ UNCHANGED game_data

\* doc(docId).set(data), the write going through or not
SetDocument(docId, data, next, ok) ==
    IF ok
    THEN /\ game_data' = Put(game_data, docId, data)
         /\ uploader' = [uploader EXCEPT !.pc = next, !.written = Append(@, docId)]
    ELSE /\ uploader' = Failed(uploader)
         /\ UNCHANGED game_data

\* uploadHistoriaBase, uploadSistemaEspecializacao: the file is written as it is
UploadFile(step, docId, data, next, ok) ==
    /\ uploader.pc = step
    /\ IF data = Unreadable
       THEN uploader' = Failed(uploader) /\ UNCHANGED game_data
       ELSE SetDocument(docId, data, next, ok)

UploadHistoriaBase(ok) ==
    /\ UploadFile("uploadHistoriaBase", "historia_base", uploader.disk.historia_base,
                   "uploadAmbientes", ok)
    /\ UNCHANGED <<pageVars, accusationVars, aiVars>>

\* uploadAmbientes, uploadPersonagens
UploadDirectory(step, docId, directory, next, ok) ==
    /\ uploader.pc = step
    /\ IF ~directory.exists
       THEN uploader' = Failed(uploader) /\ UNCHANGED game_data
       ELSE SetDocument(docId, ObjectJSON(Keyed(Entries(directory.files))), next, ok)

UploadAmbientes(ok) ==
    /\ UploadDirectory("uploadAmbientes", "ambientes", uploader.disk.ambientes,
                        "uploadPersonagens", ok)
    /\ UNCHANGED <<pageVars, accusationVars, aiVars>>

UploadPersonagens(ok) ==
    /\ UploadDirectory("uploadPersonagens", "personagens", uploader.disk.personagens,
                        "uploadObjetos", ok)
    /\ UNCHANGED <<pageVars, accusationVars, aiVars>>

\* uploadObjetos, uploadPistas
UploadItems(step, docId, data, next, ok) ==
    /\ uploader.pc = step
    /\ IF data = Unreadable
       THEN uploader' = Failed(uploader) /\ UNCHANGED game_data
       ELSE SetDocument(docId, ItemsDocument(data), next, ok)

UploadObjetos(ok) ==
    /\ UploadItems("uploadObjetos", "objetos", uploader.disk.objetos, "uploadPistas", ok)
    /\ UNCHANGED <<pageVars, accusationVars, aiVars>>

UploadPistas(ok) ==
    /\ UploadItems("uploadPistas", "pistas", uploader.disk.pistas,
                    "uploadSistemaEspecializacao", ok)
    /\ UNCHANGED <<pageVars, accusationVars, aiVars>>

UploadSistemaEspecializacao(ok) ==
    /\ UploadFile("uploadSistemaEspecializacao", "sistema_especializacao",
                   uploader.disk.sistema_especializacao, "uploaded", ok)
    /\ UNCHANGED <<pageVars, accusationVars, aiVars>>

\* uploadAll reports the success, main exits with 0
Uploaded ==
    /\ uploader.pc = "uploaded"
    /\ uploader' = Exit(uploader, 0, "Todos os dados foram enviados com sucesso!")
    /\ UNCHANGED game_data
    /\ UNCHANGED <<pageVars, accusationVars, aiVars>>

UploadStart ==
    /\ PageInit
    /\ guest_saves = <<>>
    /\ AIInit
    /\ game_data = <<>>
    /\ uploader \in UploadRuns

UploadNext ==
    \/ Main
    \/ \E answer \in Answers : Answer(answer)
    \/ \E ok \in BOOLEAN : UploadHistoriaBase(ok)
    \/ \E ok \in BOOLEAN : UploadAmbientes(ok)
    \/ \E ok \in BOOLEAN : UploadPersonagens(ok)
    \/ \E ok \in BOOLEAN : UploadObjetos(ok)
    \/ \E ok \in BOOLEAN : UploadPistas(ok)
    \/ \E ok \in BOOLEAN : UploadSistemaEspecializacao(ok)
    \/ Uploaded

\* one run of the upload script
UploadSpec == UploadStart /\ [][UploadNext]_vars

-----------------------------------------------------------------------------
(* The AI settings and the story generator (AIUIController, StoryGenerator). *)
(* A reply of a provider is an HTTP error or a text; a text is JSON of a     *)
(* value or prose; the texts of a generated story are short; the symbols     *)
(* that open the notifications are left out.                                 *)

KeyInputs == {<<" ">>, <<" ", "k", "1">>}               \* typed into #api-key
OllamaUrls == {DefaultOllamaUrl, "http://lan:11434"}     \* typed into #ollama-url

\* what localStorage can hold when the page is opened: nothing, a provider id
\* this version does not know, or the settings saved in an earlier visit
StoredSettings ==
    {<<>>,
     "enigma_ai_provider" :> "cohere",
     ("enigma_ai_provider" :> "openai") @@
     ("enigma_ai_config" :> updateProviderConfig(DefaultConfig, "openai", [apiKey |-> "k2"]))}

\* what the story generator form can hold
Preferences ==
    {[theme |-> "medieval", customTheme |-> NullText],
     [theme |-> "custom", customTheme |-> "um farol"]}

TestPrompt == "Responda apenas: \"Conexão bem-sucedida!\""

\* the steps of StoryGenerator.generateStory, in the order it awaits them
Steps == <<"concept", "characters", "locations", "objectsAndClues", "solution">>

\* generateConcept: themeDescriptions[theme]
themeDescription(preferences) ==
    CASE preferences.theme = "medieval" -> "uma taverna medieval em uma cidade de fantasia"
      [] preferences.theme = "custom" ->
           IF preferences.customTheme # NullText /\ preferences.customTheme # ""
           THEN preferences.customTheme ELSE "um ambiente de mistério"

\* the value of a step already answered
Part(parts, step) ==
    parts[CHOOSE i \in DOMAIN parts : parts[i].step = step].value

\* characters.find(c => c.is_culprit) finds one
HasCulprit(characters) == \E i \in DOMAIN characters : characters[i].is_culprit

\* what a step throws before it sends its prompt, "" if nothing
StepThrows(step, parts) ==
    IF step \in {"objectsAndClues", "solution"} /\ ~HasCulprit(Part(parts, "characters"))
    THEN "Cannot read properties of undefined (reading 'name')"
    ELSE ""

\* the prompt a step sends
StepPrompt(step, preferences, parts) ==
    IF step = "concept" THEN "concept: " \o themeDescription(preferences)
    ELSE step \o ": " \o Part(parts, "concept").title

\* what the providers answer with a parsable reply
GeneratedPart(step, preferences) ==
    CASE step = "concept" ->
           [title |-> "O Enigma", description |-> "Um crime", introduction |-> "Era noite",
            setting |-> themeDescription(preferences)]
      [] step = "characters" ->
           <<[character_id |-> 5, area_id |-> 1, is_culprit |-> TRUE,
              levels |-> StoryPersonagens[5].levels]>>
      [] step = "locations" -> <<StoryAmbientes[1]>>
      [] step = "objectsAndClues" -> [objects |-> StoryObjetos, clues |-> StoryPistas]
      [] step = "solution" ->
           [solution_criteria |-> StoryHistoria.solution_criteria, conclusion |-> "Fim"]

\* a cast in which nobody is the culprit
InnocentCast ==
    <<[character_id |-> 5, area_id |-> 1, is_culprit |-> FALSE,
       levels |-> StoryPersonagens[5].levels]>>

HTTPError == [status |-> "error"]
JSONText(value) == [status |-> "ok", json |-> value]
Prose == [status |-> "ok", prose |-> "Desculpe"]

\* how a provider can answer a step
Outcomes == {"error", "prose", "json", "innocent"}

\* the reply a step gets
Reply(outcome, step, preferences) ==
    CASE outcome = "error" -> HTTPError
      [] outcome = "prose" -> Prose
      [] outcome = "json" -> JSONText(GeneratedPart(step, preferences))
      [] outcome = "innocent" -> JSONText(InnocentCast)

\* parseJSON
parseJSON(text) ==
    IF "json" \in DOMAIN text THEN [value |-> text.json, error |-> ""]
    ELSE [error |-> "Failed to parse AI response as JSON"]

\* a JavaScript array as the object Object.entries sees: indices from 0
ArrayObject(array) == [i \in 0..(Len(array) - 1) |-> array[i + 1]]

\* getDefaultSkillSystem
DefaultSkillSystem == [categories |-> <<"investigacao", "persuasao">>]

\* assembleStory
assembleStory(parts) ==
    LET concept == Part(parts, "concept")
        characters == Part(parts, "characters")
        solution == Part(parts, "solution")
    IN [historia_base |->
          [title |-> concept.title, description |-> concept.description,
           introduction |-> concept.introduction, conclusion |-> solution.conclusion,
           solution_criteria |-> solution.solution_criteria, theme |-> concept.setting],
        ambientes |-> ArrayObject(Part(parts, "locations")),
        personagens |-> [id \in {characters[i].character_id : i \in DOMAIN characters} |->
                           characters[CHOOSE i \in DOMAIN characters :
                                        characters[i].character_id = id
                                        /\ \A j \in DOMAIN characters :
                                              characters[j].character_id = id => j <= i]],
        objetos |-> Part(parts, "objectsAndClues").objects,
        pistas |-> Part(parts, "objectsAndClues").clues,
        sistema_especializacao |-> DefaultSkillSystem]

\* the document of a story with the provider settings put into it
StoryDocumentWithSettings(story, storyId, createdAt) ==
    Spread(story, [createdAt |-> createdAt, storyId |-> storyId, ai_config |-> aiProvider.config])

\* saveGeneratedStory: { ...story, createdAt, storyId }
StoryDocument(story, storyId, createdAt) ==
    Spread(story, [createdAt |-> createdAt, storyId |-> storyId])

\* saveGeneratedStory writing nothing
saveGeneratedStoryNowhere(stories, story, now) == stories

\* saveGeneratedStory: generated_stories after the write
saveGeneratedStory(stories, story, now) ==
    Put(stories, "generated_" \o now, StoryDocument(story, "generated_" \o now, now))

\* startGameWithGeneratedStory: the player state before saveGame
StartedWith(story, ps, playerId) ==
    LET keys == SortedKeys(DOMAIN story.ambientes)
        i == FindIndex(keys, LAMBDA k : story.ambientes[k].is_starting_location)
        placed == IF i = 0 THEN ps
                  ELSE [ps EXCEPT !.currentLocation = keys[i],
                                  !.currentArea =
                                     IF Len(story.ambientes[keys[i]].areas) > 0
                                     THEN story.ambientes[keys[i]].areas[1].area_id ELSE @]
    IN [placed EXCEPT !.playerId = playerId]

\* btn-ai-settings: showAISettings
ShowAISettings ==
    /\ Tick
    /\ screen = "main-menu"
    /\ ~aiModals.settings
    /\ aiModals' = [aiModals EXCEPT !.settings = TRUE]
    /\ notifications' = {}
    /\ requests' = <<>>
    /\ UNCHANGED <<localStorage, aiProvider, generated_stories, generation>>
    /\ UNCHANGED <<gameData, playerState, dynamicDetailsCache, guest_saves, screen, options,
                   conversationPanel, narrative, currentCharacter, conversationLog,
                   savedGamesList, triggerResult, pending, handlerFailed>>
    /\ UNCHANGED <<accusationVars, uploadVars, backend>>

\* the click on a provider card
SelectProvider(id) ==
    /\ Tick
    /\ aiModals.settings
    /\ aiProvider' = [aiProvider EXCEPT !.currentProvider = id]
    /\ localStorage' = Put(localStorage, "enigma_ai_provider", id)
    /\ notifications' = {}
    /\ requests' = <<>>
    /\ UNCHANGED <<generated_stories, generation, aiModals>>
    /\ UNCHANGED <<gameData, playerState, dynamicDetailsCache, guest_saves, screen, options,
                   conversationPanel, narrative, currentCharacter, conversationLog,
                   savedGamesList, triggerResult, pending, handlerFailed>>
    /\ UNCHANGED <<accusationVars, uploadVars, backend>>

\* btn-save-ai-settings: saveAISettings; the fields exist for the six providers
SaveAISettings(urlInput, keyInput) ==
    /\ Tick
    /\ aiModals.settings
    /\ aiProvider.currentProvider \in AvailableProviders
    /\ LET currentProvider == aiProvider.currentProvider
           apiKey == Spelled(trim(keyInput))
       IN IF currentProvider # "ollama" /\ apiKey = ""
          THEN /\ notifications' = {Toast("Por favor, insira uma API key válida", 0)}
               /\ UNCHANGED <<aiProvider, localStorage>>
          ELSE /\ aiProvider' =
                    [aiProvider EXCEPT !.config =
                       updateProviderConfig(@, currentProvider,
                                            IF currentProvider = "ollama"
                                            THEN [baseUrl |-> urlInput]
                                            ELSE [apiKey |-> apiKey])]
               /\ localStorage' = Put(localStorage, "enigma_ai_config", aiProvider'.config)
               /\ notifications' = {Toast("Configurações salvas!", 0)}
    /\ requests' = <<>>
    /\ UNCHANGED <<generated_stories, generation, aiModals>>
    /\ UNCHANGED <<gameData, playerState, dynamicDetailsCache, guest_saves, screen, options,
                   conversationPanel, narrative, currentCharacter, conversationLog,
                   savedGamesList, triggerResult, pending, handlerFailed>>
    /\ UNCHANGED <<accusationVars, uploadVars, backend>>

\* btn-test-ai: testAIConnection up to the await of the reply
TestAIConnection ==
    /\ Tick
    /\ aiModals.settings
    /\ Len(pending) < MaxPending
    /\ LET call == generateText(aiProvider, TestPrompt)
       IN /\ requests' = call.sent
          /\ IF call.error # ""
             THEN /\ notifications' = {Toast("Erro na conexão: " \o call.error, 0)}
                  /\ UNCHANGED pending
             ELSE /\ notifications' = {}
                  /\ pending' = Append(pending,
                                       Waiting("testAIConnection", NullText, NullId, 0, <<>>))
    /\ UNCHANGED <<localStorage, aiProvider, generated_stories, generation, aiModals>>
    /\ UNCHANGED <<gameData, playerState, dynamicDetailsCache, guest_saves, screen, options,
                   conversationPanel, narrative, currentCharacter, conversationLog,
                   savedGamesList, triggerResult, handlerFailed>>
    /\ UNCHANGED <<accusationVars, uploadVars, backend>>

\* testAIConnection after the reply
ConnectionTested(i, ok) ==
    /\ i \in DOMAIN pending
    /\ pending[i].kind = "testAIConnection"
    /\ pending' = RemoveAt(pending, i)
    /\ notifications' = IF ok THEN {Toast("Conexão bem-sucedida!", 0)}
                        ELSE {Toast("Erro na conexão", 0)}
    /\ requests' = <<>>
    /\ UNCHANGED <<localStorage, aiProvider, generated_stories, generation, aiModals>>
    /\ UNCHANGED <<gameData, playerState, dynamicDetailsCache, guest_saves, screen, options,
                   conversationPanel, narrative, currentCharacter, conversationLog,
                   savedGamesList, triggerResult, handlerFailed, nactions>>
    /\ UNCHANGED <<accusationVars, uploadVars, backend>>

\* btn-create-story: showStoryGenerator with isProviderReady; reachable: Ollama
\* answered the request for its tags; configure: the answer to the confirm
ShowStoryGenerator(reachable, configure) ==
    /\ Tick
    /\ screen = "main-menu"
    /\ ~aiModals.storyGenerator
    /\ LET provider == aiProvider.currentProvider
           isReady == CASE provider = "ollama" -> reachable
                        [] provider \in AvailableProviders ->
                             aiProvider.config[provider].apiKey # ""
                        [] OTHER -> FALSE
       IN /\ requests' = IF provider = "ollama"
                         THEN <<Request(aiProvider.config.ollama.baseUrl \o "/api/tags",
                                        "", "")>>
                         ELSE <<>>
          /\ aiModals' = IF isReady THEN [aiModals EXCEPT !.storyGenerator = TRUE]
                         ELSE IF configure THEN [aiModals EXCEPT !.settings = TRUE]
                         ELSE aiModals
    /\ notifications' = {}
    /\ UNCHANGED <<localStorage, aiProvider, generated_stories, generation>>
    /\ UNCHANGED <<gameData, playerState, dynamicDetailsCache, guest_saves, screen, options,
                   conversationPanel, narrative, currentCharacter, conversationLog,
                   savedGamesList, triggerResult, pending, handlerFailed>>
    /\ UNCHANGED <<accusationVars, uploadVars, backend>>

\* the catch of AIUIController.generateStory
GenerationFailed(message) ==
    /\ generation' = NoGeneration
    /\ aiModals' = [aiModals EXCEPT !.generateBtn = "enabled",
                                    !.message = "Erro ao gerar história: " \o message]
    /\ notifications' =
         {Toast("Erro ao gerar história. Verifique suas configurações de IA.", 0)}

\* a step of StoryGenerator.generateStory up to the await of its reply
StepBegun(step, preferences, parts) ==
    LET thrown == StepThrows(step, parts)
        call == IF thrown # "" THEN Thrown(thrown)
                ELSE generateText(aiProvider, StepPrompt(step, preferences, parts))
    IN /\ requests' = call.sent
       /\ IF call.error # "" THEN GenerationFailed(call.error)
          ELSE /\ generation' = [pc |-> step, preferences |-> preferences, parts |-> parts]
               /\ aiModals' = [aiModals EXCEPT !.generateBtn = "disabled",
                                               !.message = "Gerando conceito da história..."]
               /\ notifications' = {}

\* btn-generate-story: AIUIController.generateStory up to the first await
GenerateStory(preferences) ==
    /\ Tick
    /\ aiModals.storyGenerator
    /\ aiModals.generateBtn = "enabled"
    /\ StepBegun(Steps[1], preferences, <<>>)
    /\ UNCHANGED <<localStorage, aiProvider, generated_stories>>
    /\ UNCHANGED <<gameData, playerState, dynamicDetailsCache, guest_saves, screen, options,
                   conversationPanel, narrative, currentCharacter, conversationLog,
                   savedGamesList, triggerResult, pending, handlerFailed>>
    /\ UNCHANGED <<accusationVars, uploadVars, backend>>

\* generateStory from the reply of a step to the next await: the next step,
\* or assembleStory and the write of saveGeneratedStory
StepReplied(outcome) ==
    /\ \E k \in DOMAIN Steps : generation.pc = Steps[k]
    /\ outcome = "innocent" => generation.pc = "characters"
    /\ LET k == CHOOSE k \in DOMAIN Steps : generation.pc = Steps[k]
           reply == Reply(outcome, generation.pc, generation.preferences)
           parsed == IF reply.status = "ok" THEN parseJSON(reply)
                     ELSE [error |-> "API error"]
           parts == Append(generation.parts, [step |-> Steps[k], value |-> parsed.value])
       IN IF parsed.error # ""
          THEN GenerationFailed(parsed.error) /\ requests' = <<>>
          ELSE IF k < Len(Steps)
          THEN StepBegun(Steps[k + 1], generation.preferences, parts)
          ELSE /\ generation' = [pc |-> "saving", preferences |-> generation.preferences,
                                 parts |-> parts, story |-> assembleStory(parts)]
               /\ aiModals' = [aiModals EXCEPT !.message = "História gerada com sucesso!"]
               /\ notifications' = {}
               /\ requests' = <<>>
    /\ UNCHANGED <<localStorage, aiProvider, generated_stories>>
    /\ UNCHANGED <<gameData, playerState, dynamicDetailsCache, guest_saves, screen, options,
                   conversationPanel, narrative, currentCharacter, conversationLog,
                   savedGamesList, triggerResult, pending, handlerFailed, nactions>>
    /\ UNCHANGED <<accusationVars, uploadVars, backend>>

\* generateStory after `await this.saveGeneratedStory(story)`: the timer is set,
\* or the write was refused
StorySaved(ok) ==
    /\ generation.pc = "saving"
    /\ IF ok
       THEN /\ generated_stories' = saveGeneratedStory(generated_stories, generation.story, Now)
            /\ generation' = [generation EXCEPT !.pc = "timer"]
            /\ notifications' = {}
            /\ UNCHANGED aiModals
       ELSE /\ GenerationFailed("Missing or insufficient permissions.")
            /\ UNCHANGED generated_stories
    /\ requests' = <<>>
    /\ UNCHANGED <<localStorage, aiProvider>>
    /\ UNCHANGED <<gameData, playerState, dynamicDetailsCache, guest_saves, screen, options,
                   conversationPanel, narrative, currentCharacter, conversationLog,
                   savedGamesList, triggerResult, pending, handlerFailed, nactions>>
    /\ UNCHANGED <<accusationVars, uploadVars, backend>>

\* the timer of generateStory: startGameWithGeneratedStory up to `await saveGame()`
StartGameWithGeneratedStory ==
    /\ generation.pc = "timer"
    /\ \E playerId \in SessionIds \ DOMAIN guest_saves :
          playerState' = StartedWith(generation.story, playerState, playerId)
    /\ gameData' = generation.story
    /\ guest_saves' = SaveWrite(guest_saves, playerState', dynamicDetailsCache)
    /\ generation' = [generation EXCEPT !.pc = "starting"]
    /\ aiModals' = [aiModals EXCEPT !.storyGenerator = FALSE]
    /\ notifications' = {Toast("História gerada! Iniciando novo jogo...", 0)}
    /\ requests' = <<>>
    /\ UNCHANGED <<localStorage, aiProvider, generated_stories>>
    /\ UNCHANGED <<dynamicDetailsCache, screen, options, conversationPanel, narrative,
                   currentCharacter, conversationLog, savedGamesList, triggerResult,
                   pending, handlerFailed, nactions>>
    /\ UNCHANGED <<accusationVars, uploadVars, backend>>

\* startGameWithGeneratedStory after `await saveGame()`: showGameScreen
GeneratedGameShown ==
    /\ generation.pc = "starting"
    /\ ShowGameScreen(playerState)
    /\ generation' = NoGeneration
    /\ notifications' = {}
    /\ requests' = <<>>
    /\ UNCHANGED <<localStorage, aiProvider, generated_stories, aiModals>>
    /\ UNCHANGED <<gameData, dynamicDetailsCache, guest_saves, conversationPanel,
                   currentCharacter, conversationLog, savedGamesList, triggerResult,
                   pending, handlerFailed, nactions>>
    /\ UNCHANGED <<accusationVars, uploadVars, backend>>

\* the page opened over what localStorage holds, nothing saved yet
AIStart ==
    /\ PageInit
    /\ guest_saves = <<>>
    /\ \E storage \in StoredSettings : AIOpened(storage)
    /\ UploadInit

AINext ==
    \/ InitApp
    \/ ShowAISettings
    \/ \E id \in AvailableProviders : SelectProvider(id)
    \/ \E urlInput \in OllamaUrls, keyInput \in KeyInputs : SaveAISettings(urlInput, keyInput)
    \/ TestAIConnection
    \/ \E i \in 1..MaxPending, ok \in BOOLEAN : ConnectionTested(i, ok)
    \/ \E reachable, configure \in BOOLEAN : ShowStoryGenerator(reachable, configure)
    \/ \E preferences \in Preferences : GenerateStory(preferences)
    \/ \E outcome \in Outcomes : StepReplied(outcome)
    \/ \E ok \in BOOLEAN : StorySaved(ok)
    \/ StartGameWithGeneratedStory
    \/ GeneratedGameShown

AISpec == AIStart /\ [][AINext]_vars

-----------------------------------------------------------------------------
(* The cloud functions enhanceText and generateNPCDialogue (functions/       *)
(* index.js) and the two methods of the engine that call them.               *)

NotConfiguredResponse == <<"Não consigo responder a isso no momento.">>
NoAnswerResponse == <<"Não sei o que dizer sobre isso.">>

\* what openai.chat.completions.create does: it throws, or it answers with or
\* without a content
Completions == {"thrown", "empty", "content"}

\* what the call of the function does on the way: it is delivered, or it throws
Transports == {"delivered", "fails"}

\* the content of a completion for a text
Completed(text) == <<"AI">> \o text

\* exports.enhanceText: the enhancedText it returns
enhanceText(configured, completion, text) ==
    IF ~configured THEN text
    ELSE IF completion = "thrown" THEN text
    ELSE IF completion = "content" THEN Completed(text)
    ELSE text

\* exports.generateNPCDialogue: the response it returns
NPCDialogueResponse(configured, completion, question) ==
    IF ~configured THEN NotConfiguredResponse
    ELSE IF completion = "thrown" THEN NoAnswerResponse
    ELSE IF completion = "content" THEN Completed(question)
    ELSE NoAnswerResponse

\* what a method of the engine hands to its caller
Returned(value) == [value |-> value, thrown |-> FALSE]
Raised == [value |-> <<>>, thrown |-> TRUE]

\* enhanceTextWithAI
enhanceTextWithAI(transport, enhancedText, text) ==
    IF transport = "fails" THEN Returned(text)
    ELSE Returned(OrElse(enhancedText, text))

\* generateNPCDialogue without its catch
generateNPCDialogueUncaught(transport, response) ==
    IF transport = "fails" THEN Raised
    ELSE Returned(response)

\* generateNPCDialogue of the engine
generateNPCDialogue(transport, response) ==
    IF transport = "fails" THEN Returned(NotConfiguredResponse)
    ELSE Returned(response)

\* the calls that can be made
BackendCalls ==
    [pc : {"called"}, function : {"enhanceText", "generateNPCDialogue"},
     configured : BOOLEAN, completion : Completions, transport : Transports,
     text : Texts]

\* the cloud function runs, unless the call does not reach it
FunctionServed ==
    /\ backend.pc = "called"
    /\ backend' =
         IF backend.transport = "fails"
         THEN Spread(backend, [pc |-> "served", served |-> <<>>])
         ELSE Spread(backend,
                     [pc |-> "served",
                      served |-> IF backend.function = "enhanceText"
                                 THEN enhanceText(backend.configured, backend.completion,
                                                  backend.text)
                                 ELSE NPCDialogueResponse(backend.configured,
                                                          backend.completion, backend.text)])
    /\ UNCHANGED <<localStorage, aiProvider, requests, generated_stories, generation, aiModals>>
    /\ UNCHANGED <<pageVars, accusationVars, uploadVars>>

\* the method of the engine returns to its caller
CallReturned ==
    /\ backend.pc = "served"
    /\ backend' =
         Spread(backend,
                [pc |-> "returned",
                 result |-> IF backend.function = "enhanceText"
                            THEN enhanceTextWithAI(backend.transport, backend.served,
                                                   backend.text)
                            ELSE generateNPCDialogue(backend.transport, backend.served)])
    /\ UNCHANGED <<localStorage, aiProvider, requests, generated_stories, generation, aiModals>>
    /\ UNCHANGED <<pageVars, accusationVars, uploadVars>>

\* a call with any inputs, on a page that has just been opened
BackendStart ==
    /\ PageInit
    /\ guest_saves = <<>>
    /\ localStorage = <<>>
    /\ aiProvider = AIProviderManager(<<>>)
    /\ requests = <<>>
    /\ generated_stories = <<>>
    /\ generation = NoGeneration
    /\ aiModals = NoModals
    /\ backend \in BackendCalls
    /\ UploadInit

BackendNext ==
    \/ FunctionServed
    \/ CallReturned

BackendSpec == BackendStart /\ [][BackendNext]_vars

-----------------------------------------------------------------------------
(* The conversations of a session under way: p1 on the game screen in the  *)
(* first area, having looked into the second area, with character 5 at     *)
(* level 0, at level 1 (the earlier session) or at its last level 2.       *)

TalkFresh ==
    LET begun == [InitialPlayerState EXCEPT !.playerId = "p1",
                                            !.currentLocation = StartingLocation(Story),
                                            !.currentArea = StartingArea(Story)]
        shown == Moved(Story, begun, begun.currentArea).ps
    IN Moved(Story, Moved(Story, shown, 2).ps, 1).ps

TalkAdvanced ==
    discoverCluesByCharacter(Story, [EarlierSession EXCEPT !.characterLevels = Put(@, 5, 2)],
                             5).ps

ChatInit ==
    /\ gameData = Story
    /\ \E session \in {TalkFresh, EarlierSession, TalkAdvanced} :
          LET shown == Moved(Story, session, session.currentArea)
          IN /\ playerState = shown.ps
             /\ guest_saves = SaveWrite(<<>>, session, [descriptions |-> <<>>, details |-> <<>>])
             /\ narrative = shown.narrative
             /\ options = shown.options
    /\ dynamicDetailsCache = [descriptions |-> <<>>, details |-> <<>>]
    /\ screen = "game-screen"
    /\ conversationPanel = FALSE
    /\ currentCharacter = NoCharacter
    /\ conversationLog = <<>>
    /\ savedGamesList = {}
    /\ triggerResult = NoResult
    /\ pending = <<>>
    /\ notifications = {}
    /\ handlerFailed = FALSE
    /\ nactions = 0
    /\ accusationModal = "hidden"
    /\ resultModal = NoVerdict
    /\ AIInit
    /\ UploadInit

ChatNext ==
    \/ \E k \in 1..Len(options.areas) : MoveToArea(k)
    \/ \E k \in 1..Len(options.characters) : StartConversation(k)
    \/ \E input \in Texts : SendMessage(input)
    \/ \E i \in 1..MaxPending : TriggerSaved(i)
    \/ \E i \in 1..MaxPending, failed \in BOOLEAN : DialogueGenerated(i, failed)
    \/ EndConversation

ChatSpec == ChatInit /\ [][ChatNext]_vars

-----------------------------------------------------------------------------
(* Specification *)

Next ==
    \/ InitApp
    \/ ShowNewGameScreen
    \/ ShowLoadGameScreen
    \/ ShowMainMenu
    \/ \E input \in TypedIds \cup {""} : StartNewGame(input)
    \/ \E i \in 1..MaxPending, readFails, overwrite \in BOOLEAN :
          NewGameChecked(i, readFails, overwrite)
    \/ \E i \in 1..MaxPending : NewGameSaved(i)
    \/ \E playerId \in TypedIds \cup SessionIds : LoadGame(playerId)
    \/ \E i \in 1..MaxPending, readFails \in BOOLEAN : GameLoaded(i, readFails)
    \/ SaveGameButton
    \/ ShowGameMenu
    \/ \E k \in 1..Len(options.details) : ExploreDetail(k)
    \/ \E k \in 1..Len(options.objects) : ExamineObject(k)
    \/ \E k \in 1..Len(options.areas) : MoveToArea(k)
    \/ \E k \in 1..Len(options.characters) : StartConversation(k)
    \/ \E input \in Questions : SendMessage(input)
    \/ \E i \in 1..MaxPending : TriggerSaved(i)
    \/ \E i \in 1..MaxPending, failed \in BOOLEAN : DialogueGenerated(i, failed)
    \/ EndConversation

Spec == Init /\ [][Next]_vars

\* Spec with the player never giving up while something can be done
FairSpec == Spec /\ WF_vars(Next)

(* The sessions of a player who starts a game, walks and talks, and types  *)
(* any text of at most MaxLen characters.                                  *)
TalkNext ==
    \/ InitApp
    \/ ShowNewGameScreen
    \/ \E input \in TypedIds \cup {""} : StartNewGame(input)
    \/ \E i \in 1..MaxPending, readFails, overwrite \in BOOLEAN :
          NewGameChecked(i, readFails, overwrite)
    \/ \E i \in 1..MaxPending : NewGameSaved(i)
    \/ \E k \in 1..Len(options.areas) : MoveToArea(k)
    \/ \E k \in 1..Len(options.characters) : StartConversation(k)
    \/ \E input \in Texts : SendMessage(input)
    \/ \E i \in 1..MaxPending : TriggerSaved(i)
    \/ \E i \in 1..MaxPending, failed \in BOOLEAN : DialogueGenerated(i, failed)
    \/ EndConversation

TalkSpec == Init /\ [][TalkNext]_vars

-----------------------------------------------------------------------------
(* Properties: what a step of sendMessage shows *)

\* the step appends the player's question to the messages container
Asked ==
    /\ Len(conversationLog') > Len(conversationLog)
    /\ conversationLog'[Len(conversationLog) + 1].type = "player"

AskedQuestion == conversationLog'[Len(conversationLog) + 1].message

\* the step left checkForTrigger with null: generateNPCDialogue is awaited
ReturnedNull ==
    /\ Len(pending') = Len(pending) + 1
    /\ pending'[Len(pending')].kind = "generateNPCDialogue"

\* the response checkForTrigger returns, or is to return after its await
ReturnedResponse ==
    IF Len(pending') = Len(pending) + 1 /\ pending'[Len(pending')].kind = "checkForTrigger"
    THEN pending'[Len(pending')].text
    ELSE triggerResult'.response

CurrentCharacterLevel == getCharacterLevel(playerState, currentCharacter.character_id)

\* the trigger checkForTrigger matches for the question of the step
MatchedPosition == FirstMatch(currentCharacter, CurrentCharacterLevel, AskedQuestion)

MatchedTrigger == currentCharacter.levels[MatchedPosition[1]].triggers[MatchedPosition[2]]

\* some trigger of a reached level has a non-empty keyword the text contains
KeywordFires(character, charLevel, text) ==
    \E i \in DOMAIN character.levels :
        \E j \in DOMAIN character.levels[i].triggers :
            /\ character.levels[i].level_number <= charLevel
            /\ character.levels[i].triggers[j].trigger_keyword # <<>>
            /\ includes(toLowerCase(text),
                        toLowerCase(character.levels[i].triggers[j].trigger_keyword))

LastPlayerMessage ==
    LET asked == {i \in DOMAIN conversationLog : conversationLog[i].type = "player"}
    IN IF asked = {} THEN <<>>
       ELSE conversationLog[CHOOSE i \in asked : \A j \in asked : j <= i].message

-----------------------------------------------------------------------------
(* C1 *)

(* C1: a matched trigger whose requirements the player state does not      *)
(* satisfy never yields its success_response.                              *)
C1_SuccessOnlyWithRequirements ==
    [][(Asked /\ ~ReturnedNull /\ ~checkDialogueRequirements(playerState, MatchedTrigger))
          => ReturnedResponse # MatchedTrigger.success_response]_vars

-----------------------------------------------------------------------------
(* C2 *)

(* C2: checkForTrigger returns a non-null result exactly when the          *)
(* lower-cased question contains the lower-cased, non-empty keyword of a   *)
(* trigger of a level whose level_number is at most the character's level. *)
C2_NonNullIffKeywordOfReachedLevel ==
    [][Asked => (~ReturnedNull <=>
                    KeywordFires(currentCharacter, CurrentCharacterLevel, AskedQuestion))]_vars

\* a keyword of a reached level fired through the lower-casing of the question
C2_Witness ==
    /\ LastPlayerMessage = <<"B", "B">>
    /\ currentCharacter.character_id = 3
    /\ triggerResult.response = <<"S9">>

-----------------------------------------------------------------------------
(* C3 *)

(* C3: when the question contains the keyword of a trigger of a reached    *)
(* level, the trigger's requirements are satisfied and the character is    *)
(* not at its last level, the character's level increases by exactly one.  *)
C3_KeywordRaisesLevel ==
    [][(/\ Asked
        /\ ~ReturnedNull
        /\ checkDialogueRequirements(playerState, MatchedTrigger)
        /\ CurrentCharacterLevel < Len(currentCharacter.levels) - 1)
          => getCharacterLevel(playerState', currentCharacter.character_id)
                = CurrentCharacterLevel + 1]_vars

-----------------------------------------------------------------------------
(* C4 *)

\* the areas the player has been shown or has explored
AreasKnown(ps) == DOMAIN ps.lastSeenDetails \cup DOMAIN ps.locationLevels \cup {ps.currentArea}

\* the player holds or knows nothing of what the requirement lists
HasNothingOf(ps, req) ==
    /\ \A i \in DOMAIN req.required_object_id :
           /\ ~Includes(ps.inventory, req.required_object_id[i])
           /\ ~Includes(ps.examinedObjects, req.required_object_id[i])
           /\ getObjectDiscoveryLevel(ps, req.required_object_id[i]) = 0
    /\ \A i \in DOMAIN req.required_detail_id :
           \A areaKey \in DOMAIN ps.lastSeenDetails :
               ~Includes(ps.lastSeenDetails[areaKey], req.required_detail_id[i])
    /\ req.required_area_id \notin AreasKnown(ps)

AllTriggers(gd) ==
    UNION {UNION {{gd.personagens[c].levels[i].triggers[j] :
                      j \in DOMAIN gd.personagens[c].levels[i].triggers} :
                  i \in DOMAIN gd.personagens[c].levels} :
           c \in DOMAIN gd.personagens}

(* C4: for each of the requirement types of the character data,            *)
(* checkDialogueRequirements is false when the player has none of the      *)
(* objects, details or locations a requirement of the trigger lists.       *)
C4_RequirementNeedsWhatItNames ==
    \A trigger \in AllTriggers(gameData) :
        (\E i \in DOMAIN trigger.requirements :
             HasNothingOf(playerState, trigger.requirements[i]))
           => ~checkDialogueRequirements(playerState, trigger)

-----------------------------------------------------------------------------
(* C5 *)

(* C5: examining an object whose id is already in examinedObjects leaves   *)
(* every skill value unchanged.                                            *)
C5_ReexaminationGrantsNothing ==
    [][\A k \in DOMAIN options.objects :
          (ExamineObject(k)
             /\ Includes(playerState.examinedObjects, options.objects[k].object_id))
            => playerState'.skills = playerState.skills]_vars

-----------------------------------------------------------------------------
(* C6 *)

\* the area with the id areaId, in whichever location it lies
AreasWithId(gd, areaId) ==
    UNION {{gd.ambientes[l].areas[i] : i \in {j \in DOMAIN gd.ambientes[l].areas :
                                                gd.ambientes[l].areas[j].area_id = areaId}} :
           l \in DOMAIN gd.ambientes}

\* the detail detailId of the area areaId asks for no more than the level of the area
WithinLevel(gd, ps, areaId, detailId) ==
    \A area \in AreasWithId(gd, areaId) :
        \A i \in DOMAIN area.details :
            area.details[i].detail_id = detailId
               => area.details[i].discovery_level_required
                     <= getLocationDiscoveryLevel(ps, areaId)

\* every 'Explorar' button is for a detail of the current area within its level
OfferedWithinLevel ==
    \A k \in DOMAIN options.details :
        /\ Includes(getCurrentArea(gameData, playerState).details, options.details[k])
        /\ WithinLevel(gameData, playerState, playerState.currentArea,
                       options.details[k].detail_id)

\* every detail recorded as seen is within the level of its area
SeenWithinLevel ==
    \A areaKey \in DOMAIN playerState.lastSeenDetails :
        \A i \in DOMAIN playerState.lastSeenDetails[areaKey] :
            WithinLevel(gameData, playerState, areaKey, playerState.lastSeenDetails[areaKey][i])

\* every discovered clue with a condition on a detail has that detail within level
CluesWithinLevel ==
    \A c \in DOMAIN gameData.pistas :
        Includes(playerState.discoveredClues, gameData.pistas[c].clue_id)
           => \A i \in DOMAIN gameData.pistas[c].discovery_conditions :
                  LET condition == gameData.pistas[c].discovery_conditions[i]
                  IN condition.detail_id # NullId
                        => WithinLevel(gameData, playerState, condition.area_id,
                                       condition.detail_id)

(* C6 as stated: details are offered and recorded as seen only within the  *)
(* level of the area, and no clue tied to a detail is discovered before    *)
(* the area has reached the level the detail requires.                     *)
C6_NoClueBeforeAreaLevel == OfferedWithinLevel /\ SeenWithinLevel /\ CluesWithinLevel

(* C6 amended: details are offered and recorded as seen only within the    *)
(* level of the area, and exploring a detail never discovers a clue before *)
(* the area has reached the level the detail requires.                     *)
C6_ExplorationWithinAreaLevel ==
    [][/\ OfferedWithinLevel'
       /\ SeenWithinLevel'
       /\ \A k \in DOMAIN options.details :
             (ExploreDetail(k) /\ playerState'.discoveredClues # playerState.discoveredClues)
                => WithinLevel(gameData, playerState, playerState.currentArea,
                               options.details[k].detail_id)]_vars

\* the clue of detail 1, which asks for level 1 of area 1, has been discovered
C6_Witness ==
    /\ Includes(playerState.discoveredClues, 14)
    /\ narrative = Narrative("detail", 1, NullId)

-----------------------------------------------------------------------------
(* C7, C8, C9 *)

OtherLocationReached ==
    /\ screen = "game-screen"
    /\ playerState.currentLocation # StartingLocation(gameData)

OnlyStartingLocation == ~OtherLocationReached

HiddenAreaOffered ==
    \E k \in DOMAIN options.areas : ~options.areas[k].initially_visible

HiddenAreaNeverOffered == ~HiddenAreaOffered

ObjectLevelRaised ==
    \E objectId \in DOMAIN playerState.objectLevels :
        getObjectDiscoveryLevel(playerState, objectId) > 0

ObjectLevelsStayZero == ~ObjectLevelRaised

\* no 'Pegar este objeto' button is in the narrative when an event is dispatched
TakeButtonNeverShown == narrative.takeBtn = NullId /\ playerState.inventory = <<>>

-----------------------------------------------------------------------------
(* C10 *)

\* the step is the one of startNewGame that writes the save
NewGameSaveWritten ==
    /\ pending' # pending
    /\ Len(pending') = Len(pending)
    /\ pending'[Len(pending')].kind = "newGameSaved"

AllZero(f) == \A k \in DOMAIN f : f[k] = 0

\* the save document records a game that has just begun
FreshSave(gd, doc) ==
    /\ doc.currentLocation = StartingLocation(gd)
    /\ doc.currentArea = StartingArea(gd)
    /\ doc.playerData.inventory = <<>>
    /\ doc.playerData.discoveredClues = <<>>
    /\ AllZero(doc.playerData.characterLevels)
    /\ AllZero(doc.playerData.locationLevels)
    /\ AllZero(doc.playerData.objectLevels)
    /\ AllZero(doc.playerData.skills)
    /\ ~doc.playerData.caseSolved

(* C10: the save written when a new game starts holds the initial player   *)
(* state, whatever happened earlier in the session.                        *)
C10_NewGameSavesFreshState ==
    [][NewGameSaveWritten
          => FreshSave(gameData, guest_saves'[pending'[Len(pending')].playerId])]_vars

-----------------------------------------------------------------------------
(* C11 *)

IsPrefix(s, t) == Len(s) <= Len(t) /\ SubSeq(t, 1, Len(s)) = s

(* The player state ps holds what the document doc recorded; of            *)
(* lastSeenDetails only the entry of the current area may have grown, by   *)
(* the details the display of the game screen marks.                       *)
RestoredFrom(ps, doc) ==
    LET data == doc.playerData
    IN /\ ps.currentLocation = doc.currentLocation
       /\ ps.currentArea = doc.currentArea
       /\ ps.inventory = data.inventory
       /\ ps.discoveredClues = data.discoveredClues
       /\ ps.characterLevels = data.characterLevels
       /\ ps.locationLevels = data.locationLevels
       /\ ps.objectLevels = data.objectLevels
       /\ ps.skills = data.skills
       /\ ps.examinedObjects = data.examinedObjects
       /\ ps.caseSolved = data.caseSolved
       /\ ps.finalScore = data.finalScore
       /\ ps.solvedAt = data.solvedAt
       /\ DOMAIN ps.lastSeenDetails \subseteq DOMAIN data.lastSeenDetails \cup {ps.currentArea}
       /\ \A areaKey \in DOMAIN data.lastSeenDetails :
              /\ areaKey \in DOMAIN ps.lastSeenDetails
              /\ IF areaKey = ps.currentArea
                 THEN IsPrefix(data.lastSeenDetails[areaKey], ps.lastSeenDetails[areaKey])
                 ELSE ps.lastSeenDetails[areaKey] = data.lastSeenDetails[areaKey]

-----------------------------------------------------------------------------
(* C12 *)

\* the clue the exploration of the k-th offered detail reveals, or NullId
RevealedClue(k) ==
    discoverClueByDetail(gameData, playerState, playerState.currentLocation,
                         playerState.currentArea, options.details[k].detail_id).clue

(* C12: when the exploration of a detail reveals a clue, the document      *)
(* stored under the player's id after that exploration holds the new clue  *)
(* and the location levels as the exploration left them.                   *)
C12_AutosaveHoldsExploration ==
    [][\A k \in DOMAIN options.details :
          (ExploreDetail(k) /\ RevealedClue(k) # NullId)
            => /\ HasKey(guest_saves', playerState'.playerId)
               /\ LET data == guest_saves'[playerState'.playerId].playerData
                  IN /\ Includes(data.discoveredClues, RevealedClue(k))
                     /\ data.locationLevels = playerState'.locationLevels]_vars

-----------------------------------------------------------------------------
(* C13 *)

Culprit == gameData.historia_base.solution_criteria.culprit_id

(* C13: an accusation succeeds (its result is a success, the player state  *)
(* is marked solved, the result modal congratulates) only if the suspect   *)
(* accused is the culprit of solution_criteria.                            *)
C13_SuccessOnlyForCulprit ==
    [][/\ \A suspectId \in SuspectValues(gameData), motive, method \in Statements :
             (SubmitAccusation(suspectId, motive, method)
                /\ (playerState' # playerState
                      \/ (pending' # pending /\ pending'[Len(pending')].result.success)))
               => parseInt(suspectId) = Culprit
       /\ \A i \in DOMAIN pending :
             (AccusationSaved(i) /\ resultModal'.title = "Parabéns!")
               => parseInt(pending[i].suspectId) = Culprit]_vars

\* a successful accusation has been reported and the case is marked solved
C13_Witness ==
    /\ resultModal.title = "Parabéns!"
    /\ playerState.caseSolved
    /\ playerState.finalScore >= SuccessScore

-----------------------------------------------------------------------------
(* C14 *)

\* the call of generateNPCDialogue the step has just issued
IssuedDialogueCall ==
    /\ Len(pending') = Len(pending) + 1
    /\ pending'[Len(pending')].kind = "generateNPCDialogue"

(* C14: the prompt of a call of generateNPCDialogue holds the              *)
(* knowledge_scope of a level of the character iff the level's number is   *)
(* at most the level the player has with the character.                    *)
C14_PromptKnowledgeOfReachedLevels ==
    [][IssuedDialogueCall =>
          LET call == pending'[Len(pending')]
              character == gameData'.personagens[call.charId]
              reached == getCharacterLevel(playerState', call.charId)
          IN /\ call.prompt.system.character_id = call.charId
             /\ \A j \in DOMAIN character.levels :
                   Includes(call.prompt.system.knowledge, character.levels[j].knowledge_scope)
                     <=> character.levels[j].level_number <= reached]_vars

\* a question to character 5 at level 1 is on its way: the prompt holds the
\* knowledge of levels 0 and 1 and not that of level 2
C14_Witness ==
    \E i \in DOMAIN pending :
        /\ pending[i].kind = "generateNPCDialogue"
        /\ pending[i].charId = 5
        /\ getCharacterLevel(playerState, 5) = 1
        /\ pending[i].prompt.system.knowledge = <<"K5.0", " ", "K5.1", " ">>

-----------------------------------------------------------------------------
(* C16 *)

SuccessReported ==
    /\ uploader.pc = "exited"
    /\ Includes(uploader.console, "Todos os dados foram enviados com sucesso!")

\* the files of a directory of the story on disk
FilesOf(directory) == uploader.disk[directory].files

(* C16 as stated: after a successful upload every document of game_data    *)
(* equals the parsed content of the file it was read from.                 *)
C16_DocumentsVerbatim ==
    SuccessReported =>
        /\ \A docId \in {"historia_base", "objetos", "pistas", "sistema_especializacao"} :
              game_data[docId] = uploader.disk[docId]
        /\ \A docId \in {"ambientes", "personagens"} :
              \E f \in DOMAIN FilesOf(docId) : game_data[docId] = FilesOf(docId)[f]

\* the entry i of the file f of the directory is the last one with its id
LastWithItsId(directory, f, i) ==
    \A g \in DOMAIN FilesOf(directory) :
        FilesOf(directory)[g].type = "array" =>
            \A j \in DOMAIN FilesOf(directory)[g].items :
                FilesOf(directory)[g].items[j].id = FilesOf(directory)[f].items[i].id
                    => g < f \/ (g = f /\ j <= i)

(* C16 amended: after a successful upload historia_base and               *)
(* sistema_especializacao equal the parsed content of their files; objetos *)
(* and pistas hold the parsed content of their files under the one field   *)
(* items; ambientes and personagens map each id found in the array files   *)
(* of their directory to the last entry with that id, and hold nothing     *)
(* else.                                                                   *)
C16_DocumentsAsUploaded ==
    SuccessReported =>
        /\ \A docId \in {"historia_base", "sistema_especializacao"} :
              game_data[docId] = uploader.disk[docId]
        /\ \A docId \in {"objetos", "pistas"} :
              /\ game_data[docId].type = "object"
              /\ DOMAIN game_data[docId].fields = {"items"}
              /\ game_data[docId].fields.items = uploader.disk[docId]
        /\ \A docId \in {"ambientes", "personagens"} :
              /\ game_data[docId].type = "object"
              /\ \A f \in DOMAIN FilesOf(docId) :
                    FilesOf(docId)[f].type = "array" =>
                        \A i \in DOMAIN FilesOf(docId)[f].items :
                            LET entry == FilesOf(docId)[f].items[i]
                            IN /\ ToString(entry.id) \in DOMAIN game_data[docId].fields
                               /\ LastWithItsId(docId, f, i)
                                    => game_data[docId].fields[ToString(entry.id)] = entry
              /\ \A key \in DOMAIN game_data[docId].fields :
                    \E f \in DOMAIN FilesOf(docId) :
                        /\ FilesOf(docId)[f].type = "array"
                        /\ \E i \in DOMAIN FilesOf(docId)[f].items :
                               ToString(FilesOf(docId)[f].items[i].id) = key

\* a successful upload of a story whose second file of ambientes repeats an
\* id of the first
C16_Witness ==
    /\ SuccessReported
    /\ uploader.disk.ambientes = Listing(<<EntriesJSON(<<1, 2>>, "a"), EntriesJSON(<<2>>, "b")>>)
    /\ game_data["ambientes"].fields["2"].name = "b"
    /\ game_data["objetos"].fields.items = ObjetosJSON

-----------------------------------------------------------------------------
(* C17 *)

\* every entry of the file is in the document under some key
EntriesWritten(file, document) ==
    \A i \in DOMAIN file.items :
        \E key \in DOMAIN document.fields : document.fields[key] = file.items[i]

(* C17: success is reported only if every JSON file of the story was read  *)
(* and its content written to game_data.                                   *)
C17_SuccessOnlyIfAllSent ==
    SuccessReported =>
        /\ \A docId \in {"historia_base", "objetos", "pistas", "sistema_especializacao"} :
              /\ uploader.disk[docId] # Unreadable
              /\ Includes(uploader.written, docId)
        /\ \A docId \in {"ambientes", "personagens"} :
              /\ Includes(uploader.written, docId)
              /\ \A f \in DOMAIN FilesOf(docId) :
                    /\ FilesOf(docId)[f].type = "array"
                    /\ EntriesWritten(FilesOf(docId)[f], game_data[docId])

-----------------------------------------------------------------------------
(* C18 *)

\* the answers 'sim' and 's', in small or capital letters
Yes == {answer \in Answers : toLowerCase(answer) \in {<<"s", "i", "m">>, <<"s">>}}

(* C18: in production mode nothing is written before the operator has      *)
(* answered, and after an answer other than 'sim' or 's' nothing is        *)
(* written and the run has ended with exit status 0.                       *)
C18_NoWriteWithoutConfirmation ==
    (uploader.pc # "idle" /\ uploader.production) =>
        /\ ~uploader.answered => (uploader.written = <<>> /\ game_data = <<>>)
        /\ (uploader.answered /\ uploader.answer \notin Yes) =>
              /\ uploader.written = <<>>
              /\ game_data = <<>>
              /\ uploader.pc = "exited"
              /\ uploader.exit = 0

\* the operator has declined the upload to production
C18_Witness ==
    /\ uploader.pc = "exited"
    /\ uploader.production
    /\ uploader.answered
    /\ uploader.answer = <<"n", "a", "o">>
    /\ uploader.exit = 0
    /\ game_data = <<>>

-----------------------------------------------------------------------------
\* the API a provider id stands for: the address its prompts are posted to
ApiOf(provider, config) ==
    CASE provider = "gemini" -> "https://generativelanguage.googleapis.com/v1beta/models"
      [] provider = "ollama" -> config.ollama.baseUrl \o "/api/generate"
      [] provider = "openai" -> "https://api.openai.com/v1/chat/completions"
      [] provider = "claude" -> "https://api.anthropic.com/v1/messages"
      [] provider = "deepseek" -> "https://api.deepseek.com/v1/chat/completions"
      [] provider = "perplexity" -> "https://api.perplexity.ai/chat/completions"

\* C20: a prompt is sent only to the API of the provider selected when
\* generateText is called, and with a provider id outside the six supported
\* ones the call fails with 'Provider <id> not supported' and sends nothing.
C20_OnlySelectedProvider ==
    [][LET provider == aiProvider.currentProvider
       IN /\ \A i \in DOMAIN requests' :
                requests'[i].prompt # ""
                => /\ Len(requests') = 1
                   /\ provider \in AvailableProviders
                   /\ requests'[i].url = ApiOf(provider, aiProvider.config)
          /\ provider \notin AvailableProviders
             => /\ TestAIConnection
                   => /\ requests' = <<>>
                      /\ notifications' =
                           {Toast("Erro na conexão: Provider " \o provider \o " not supported", 0)}
                /\ (\E preferences \in Preferences : GenerateStory(preferences))
                   => /\ requests' = <<>>
                      /\ aiModals'.message =
                           "Erro ao gerar história: Provider " \o provider \o " not supported"
      ]_vars

\* a prompt has gone to Anthropic with the key saved for Claude
C20_Witness ==
    /\ aiProvider.currentProvider = "claude"
    /\ requests = <<Request("https://api.anthropic.com/v1/messages", "k1", TestPrompt)>>
    /\ \E i \in DOMAIN pending : pending[i].kind = "testAIConnection"

-----------------------------------------------------------------------------
\* the API keys a configuration holds
KeysOf(config) ==
    {config[provider].apiKey :
       provider \in {id \in DOMAIN config : "apiKey" \in DOMAIN config[id]}} \ {""}

\* every API key the player has typed or the browser has kept
ApiKeys ==
    ({Spelled(trim(input)) : input \in KeyInputs} \ {""})
    \cup KeysOf(aiProvider.config) \cup KeysOf(loadConfig(localStorage))

\* the fields of a saved game and of a saved story
SaveFields == {"currentLocation", "currentArea", "playerData", "dynamicDetailsCache"}
PlayerDataFields ==
    {"inventory", "discoveredClues", "characterLevels", "locationLevels", "objectLevels",
     "lastSeenDetails", "skills", "examinedObjects", "caseSolved", "finalScore", "solvedAt"}
StoryFields ==
    {"historia_base", "ambientes", "personagens", "objetos", "pistas",
     "sistema_especializacao", "createdAt", "storyId"}
HistoriaTexts == {"title", "description", "introduction", "conclusion", "theme"}

\* C15: API keys are kept in localStorage and never reach Firestore: a key
\* the manager uses is the one localStorage holds for that provider, and no
\* document of guest_saves or generated_stories has a field beyond the saved
\* game and the story, an id that is a key, or a text that is a key.
C15_KeysOnlyInLocalStorage ==
    /\ KeysOf(aiProvider.config) # {} => loadConfig(localStorage) = aiProvider.config
    /\ \A playerId \in DOMAIN guest_saves :
          LET doc == guest_saves[playerId]
          IN /\ playerId \notin ApiKeys
             /\ DOMAIN doc = SaveFields
             /\ DOMAIN doc.playerData = PlayerDataFields
             /\ doc.playerData.solvedAt \notin ApiKeys
    /\ \A storyId \in DOMAIN generated_stories :
          LET doc == generated_stories[storyId]
          IN /\ storyId \notin ApiKeys
             /\ DOMAIN doc = StoryFields
             /\ doc.storyId \notin ApiKeys
             /\ doc.createdAt \notin ApiKeys
             /\ \A field \in HistoriaTexts : doc.historia_base[field] \notin ApiKeys
             /\ DOMAIN doc.historia_base = HistoriaTexts \cup {"solution_criteria"}

\* a story made with a key for OpenAI is in generated_stories and the game
\* begun with it is in guest_saves
C15_Witness ==
    /\ aiProvider.currentProvider = "openai"
    /\ aiProvider.config.openai.apiKey \in {"k1", "k2"}
    /\ generated_stories # <<>>
    /\ guest_saves # <<>>
    /\ generation.pc = "starting"

-----------------------------------------------------------------------------
\* the steps answered so far, in the order of their answers
StepsDone == [i \in DOMAIN generation.parts |-> generation.parts[i].step]

\* story is what a document of generated_stories holds
StorySavedAs(story) ==
    \E storyId \in DOMAIN generated_stories :
       \A field \in DOMAIN story : generated_stories[storyId][field] = story[field]

\* the generation has just failed: the notification of the catch
GenerationFailure ==
    /\ generation.pc # "idle" \/ \E preferences \in Preferences : GenerateStory(preferences)
    /\ notifications' =
         {Toast("Erro ao gerar história. Verifique suas configurações de IA.", 0)}

\* C19: the game data is replaced by a generated story and the game screen
\* opened only when the five steps have answered in their order and the story
\* is in generated_stories; a failed step or save leaves the game data, the
\* player state, the saves and the screen as they were.
C19_GameStartsOnlyAfterGeneration ==
    [][/\ (gameData # EmptyGameData /\ gameData' # gameData)
          \/ (screen # "game-screen" /\ screen' = "game-screen")
          => /\ "parts" \in DOMAIN generation
             /\ StepsDone = Steps
             /\ gameData' = assembleStory(generation.parts)
             /\ StorySavedAs(gameData')
       /\ GenerationFailure => UNCHANGED <<gameData, playerState, guest_saves, screen>>
      ]_vars

\* the game screen shows the generated story
C19_Witness ==
    /\ screen = "game-screen"
    /\ gameData.historia_base.title = "O Enigma"
    /\ StorySavedAs(gameData)
    /\ playerState.playerId \in SessionIds
    /\ generation = NoGeneration

-----------------------------------------------------------------------------
\* the backend is not configured or the call has failed somewhere
BackendFailed ==
    \/ ~backend.configured
    \/ backend.completion = "thrown"
    \/ backend.transport = "fails"

\* C21: when the backend is not configured or a call fails, enhanceTextWithAI
\* returns the text it was given, generateNPCDialogue returns one of the two
\* fallback sentences (which one depends only on where the call failed), and
\* neither raises an error.
C21_FailuresFallBack ==
    backend.pc = "returned" /\ BackendFailed
    => /\ ~backend.result.thrown
       /\ backend.function = "enhanceText" => backend.result.value = backend.text
       /\ backend.function = "generateNPCDialogue"
          => backend.result.value =
               IF backend.transport = "delivered" /\ backend.configured
               THEN NoAnswerResponse ELSE NotConfiguredResponse

\* a dialogue call that could not be delivered has returned the fallback
C21_Witness ==
    /\ backend.pc = "returned"
    /\ backend.function = "generateNPCDialogue"
    /\ backend.transport = "fails"
    /\ backend.result = Returned(NotConfiguredResponse)

-----------------------------------------------------------------------------
\* an accusation has just been processed
AccusationProcessed ==
    \E i \in DOMAIN pending' :
       /\ pending'[i].kind = "submitAccusation"
       /\ Len(pending') = Len(pending) + 1

-----------------------------------------------------------------------------
\* checkForTrigger has just returned to sendMessage: at once, or after its save
TriggerReturnedAtOnce ==
    /\ \E input \in Texts : SendMessage(input)
    /\ Len(pending') = Len(pending)

\* C23: when checkForTrigger returns levelUp = true the stored level of the
\* character is one above what it was when the call began, and the
\* notification of the raised relationship comes only with such a change.
C23_LevelUpRaisesLevel ==
    [][/\ TriggerReturnedAtOnce /\ triggerResult'.levelUp
          => getCharacterLevel(playerState', currentCharacter.character_id)
               = getCharacterLevel(playerState, currentCharacter.character_id) + 1
       /\ \A i \in DOMAIN pending :
             TriggerSaved(i) /\ triggerResult'.levelUp
             => getCharacterLevel(playerState', pending[i].charId) = pending[i].level + 1
       /\ Toast("relationship", 0) \in notifications'
          => \/ \E i \in DOMAIN pending :
                   /\ TriggerSaved(i)
                   /\ getCharacterLevel(playerState', pending[i].charId) = pending[i].level + 1
             \/ /\ TriggerReturnedAtOnce
                /\ getCharacterLevel(playerState', currentCharacter.character_id)
                     = getCharacterLevel(playerState, currentCharacter.character_id) + 1
      ]_vars

-----------------------------------------------------------------------------
\* the clues the step has added to discoveredClues
CluesAdded == Range(playerState'.discoveredClues) \ Range(playerState.discoveredClues)

\* C24: the newClues of a successful trigger are the clues the call has added
\* to discoveredClues (before and after its save), and each is announced.
C24_NewCluesAreTheCluesAdded ==
    [][/\ TriggerReturnedAtOnce /\ triggerResult'.levelUp
          => /\ Range(triggerResult'.newClues) = CluesAdded
             /\ \A c \in CluesAdded : Toast("newClue", c) \in notifications'
       /\ \A i \in DOMAIN pending :
             TriggerSaved(i)
             => /\ Range(triggerResult'.newClues) = Range(pending[i].newClues) \cup CluesAdded
                /\ currentCharacter # NoCharacter
                   => \A c \in Range(pending[i].newClues) \cup CluesAdded :
                         Toast("newClue", c) \in notifications'
      ]_vars

-----------------------------------------------------------------------------
\* a sendMessage that was waiting for its reply has just run to its end
ReplyHandled ==
    \E i \in DOMAIN pending :
       \/ TriggerSaved(i)
       \/ \E failed \in BOOLEAN : DialogueGenerated(i, failed)

\* C25: a sendMessage whose reply arrives, whatever has happened meanwhile,
\* ends without an error and with its remaining steps done: the reply is in
\* the conversation and the skill of the conversation is raised.
C25_SendMessageCompletes ==
    [][ReplyHandled
       => /\ ~handlerFailed'
          /\ Len(conversationLog') = Len(conversationLog) + 1
          /\ playerState'.skills.interpretacao_comportamento
               = Min(playerState.skills.interpretacao_comportamento + MessageSkillGain,
                     MaxSkill)
      ]_vars

-----------------------------------------------------------------------------
\* C26: a reply that is appended to the conversation is the reply to the
\* oldest question still waiting, and its speaker is the character that
\* question was sent to, whatever was clicked while it was waiting.
C26_RepliesInOrderByTheAsked ==
    [][\A i \in DOMAIN pending :
          /\ \/ TriggerSaved(i)
             \/ \E failed \in BOOLEAN : DialogueGenerated(i, failed)
          /\ ~handlerFailed'
          => /\ i = 1
             /\ conversationLog'[Len(conversationLog')].speaker = pending[i].charId
      ]_vars

-----------------------------------------------------------------------------
\* the read of a loadGame has been answered and loadGame returns false
LoadFailed(i) ==
    \/ GameLoaded(i, TRUE)
    \/ GameLoaded(i, FALSE) /\ ~HasKey(guest_saves, pending[i].playerId)

\* C27: a loadGame that fails leaves the player state, playerId included, as
\* it was before the call: the state is not touched while the answer of the
\* read, which may be a failure, is not known, and not touched when the
\* answer is a failure.
C27_FailedLoadChangesNothing ==
    [][/\ \A playerId \in savedGamesList : LoadGame(playerId) => playerState' = playerState
       /\ \A i \in DOMAIN pending : LoadFailed(i) => playerState' = playerState
      ]_vars

-----------------------------------------------------------------------------
\* C28: once the case is solved no step, a failed or a further successful
\* accusation included, changes caseSolved, finalScore or solvedAt.
C28_SolvedCaseIsFinal ==
    [][playerState.caseSolved
       => /\ playerState'.caseSolved
          /\ playerState'.finalScore = playerState.finalScore
          /\ playerState'.solvedAt = playerState.solvedAt
      ]_vars

-----------------------------------------------------------------------------
\* the documents in the order in which uploadAll sends them
UploadOrder ==
    <<"historia_base", "ambientes", "personagens", "objetos", "pistas",
      "sistema_especializacao">>

\* a step of uploadAll has thrown: uploadAll has returned false
UploadFailed ==
    /\ uploader.pc = "exited"
    /\ Includes(uploader.console, "Erro durante upload")

\* C29: the documents are written in the order historia_base, ambientes,
\* personagens, objetos, pistas, sistema_especializacao; when a step fails
\* no later document has been written, uploadAll has returned false and the
\* script has exited with status 1.
C29_UploadsInOrderUntilFailure ==
    /\ uploader.written = SubSeq(UploadOrder, 1, Len(uploader.written))
    /\ DOMAIN game_data = Range(uploader.written)
    /\ UploadFailed
       => /\ uploader.exit = 1
          /\ Len(uploader.written) < Len(UploadOrder)
          /\ ~Includes(uploader.console, "Todos os dados foram enviados com sucesso!")
    /\ uploader.pc = "exited" /\ ~UploadFailed /\ uploader.written # <<>>
       => uploader.written = UploadOrder

\* objetos.json could not be read: three documents are written, not the rest
C29_Witness ==
    /\ UploadFailed
    /\ uploader.disk.objetos = Unreadable
    /\ uploader.written = <<"historia_base", "ambientes", "personagens">>
    /\ uploader.exit = 1

-----------------------------------------------------------------------------
\* the player has been asked and has answered yes: confirm is shown only
\* when checkSaveExists answers true
OverwriteConfirmed(readFails, overwrite) == ~readFails /\ overwrite

\* C30: startNewGame, the answer of checkSaveExists in hand, writes over a
\* save that exists under the chosen id only when the player has confirmed;
\* otherwise nothing is written and the player id in memory stays.
C30_NoOverwriteWithoutConfirmation ==
    [][\A i \in DOMAIN pending : \A readFails, overwrite \in BOOLEAN :
          /\ NewGameChecked(i, readFails, overwrite)
          /\ HasKey(guest_saves, pending[i].playerId)
          /\ ~OverwriteConfirmed(readFails, overwrite)
          => /\ guest_saves' = guest_saves
             /\ playerState'.playerId = playerState.playerId
      ]_vars

====
